---------------------------- MODULE Spec2Model ----------------------------
(***************************************************************************)
(* Reconciliation / diff engine of the vessel-registry pipeline:           *)
(*   scripts/reconciliation/phase_b_diff.py          (diff engine)         *)
(*   scripts/reconciliation/validate_reconciliation.py (regression guard)  *)
(*                                                                         *)
(* Strings are sequences of one-character tokens (<<"I","M","O">> is       *)
(* "IMO"), so that trimming, upper-casing, the column-name regex and the   *)
(* "||" join are computed, not looked up.  Python's None / pandas NaN is   *)
(* the one-token sequence NONE, which is no string of the program.         *)
(* A DataFrame is a record [columns, rows]: the set of its column names    *)
(* and the set of its row records (inputs carry at most one cell per       *)
(* (row_index, column_name), so no two rows of a frame are equal).         *)
(***************************************************************************)
EXTENDS Integers, Sequences, FiniteSets, TLC

(* ----------------------------- bounds --------------------------------- *)
\* longest generated input of canonicalize_null
MaxValueLen == 2
\* longest generated input of canon_col_name
MaxColLen == 3
\* most rows of a baseline CSV / of a pipeline export
MaxRows == 2

VARIABLES
    pc,             \* position of the run
    doc,            \* the parsed YAML configuration document (diff_config.yaml)
    cfg,            \* CONFIG = load_config()
    value,          \* argument of canonicalize_null
    null_info,      \* its result (is_null, canonical_value, null_reason)
    col,            \* argument of canon_col_name
    canon1,         \* canon_col_name(col)
    canon2,         \* canon_col_name(canon_col_name(col))
    baseline,       \* baseline CSV: [slug, header, rows]
    pipeline,       \* pipeline long export: sequence of cells
    base_long,      \* baseline_to_long(...)
    pipe_df,        \* normalize_pipeline(...)
    base_remaining, \* rows of base_long not consumed by a stage
    pipe_remaining, \* rows of pipe_df not consumed by a stage
    merged,         \* concatenation of the merged parts
    aligned_counts, \* aligned_counts dict of compare_files
    both,           \* merged[_merge == 'both'] with diff_class
    only_baseline,  \* merged[_merge == 'left_only']
    only_pipeline,  \* merged[_merge == 'right_only']
    summary,        \* the row appended to summary_lines
    thresholds,     \* load_thresholds(args.threshold_file)
    summary_file,   \* _summary.csv as the validator finds it:
                    \* [exists, unreadable, columns, rows]
    diffs_dir,      \* the diffs directory: [exists, files], its *_presence.csv files
    summary_result, \* (passed, errors, warnings) of validate_summary
    presence_result,\* (passed, errors, warnings) of validate_presence
    align_result,   \* (passed, errors, warnings) of validate_alignment
    exit_code,      \* what main returns
    diff_files,     \* the {slug}_diff.csv files of the diffs directory, by slug
    presence_files, \* the {slug}_presence.csv files of the diffs directory, by slug
    summary_lines,  \* the data lines of summary_lines (after its two header lines)
    datasets,       \* baseline_files with, for each, the export find_current_file finds
    queue,          \* the baseline files the loop has not reached yet
    generated,      \* datetime.utcnow() of the "Generated:" line
    summary_csv,    \* _summary.csv as written at the end of the run
    run,            \* which run of the script this is
    first_run       \* the output files the first run left

vars == <<pc, doc, cfg, value, null_info, col, canon1, canon2, baseline, pipeline,
          base_long, pipe_df, base_remaining, pipe_remaining, merged,
          aligned_counts, both, only_baseline, only_pipeline, summary,
          thresholds, summary_file, diffs_dir, summary_result, presence_result,
          align_result, exit_code, diff_files, presence_files, summary_lines,
          datasets, queue,
          generated, summary_csv, run, first_run>>

\* Python None / pandas NaN, and a variable the run has not assigned yet
NONE == <<"<None>">>
Unset == <<"<unset>">>

UnusedDiff ==
    /\ baseline = Unset /\ pipeline = Unset /\ base_long = Unset /\ pipe_df = Unset
    /\ base_remaining = Unset /\ pipe_remaining = Unset /\ merged = Unset
    /\ aligned_counts = Unset /\ both = Unset /\ only_baseline = Unset
    /\ only_pipeline = Unset /\ summary = Unset
    /\ diff_files = Unset /\ presence_files = Unset /\ summary_lines = Unset
UnusedNull == value = Unset /\ null_info = Unset
UnusedVal ==
    /\ thresholds = Unset /\ summary_file = Unset /\ diffs_dir = Unset
    /\ summary_result = Unset /\ presence_result = Unset /\ align_result = Unset
    /\ exit_code = Unset
UnusedCol == col = Unset /\ canon1 = Unset /\ canon2 = Unset
UnusedRun ==
    /\ datasets = Unset /\ queue = Unset /\ generated = Unset
    /\ summary_csv = Unset /\ run = Unset /\ first_run = Unset

diffVars == <<baseline, pipeline, base_long, pipe_df, base_remaining, pipe_remaining,
              merged, aligned_counts, both, only_baseline, only_pipeline, summary,
              diff_files, presence_files, summary_lines>>
nullVars == <<value, null_info>>
colVars == <<col, canon1, canon2>>
valVars == <<thresholds, summary_file, diffs_dir, summary_result, presence_result,
             align_result, exit_code>>
runVars == <<datasets, queue, generated, summary_csv, run, first_run>>

(* --------------------------- strings ----------------------------------- *)
EmptyMap == [x \in {} |-> NONE]

\* an optional key of a document: absent, or present with one of the choices
Opt(field, choices) == {EmptyMap} \cup {field :> c : c \in choices}

Range(s) == {s[i] : i \in 1..Len(s)}

RECURSIVE SeqsUpTo(_, _)
SeqsUpTo(A, n) ==
    IF n = 0 THEN {<<>>}
    ELSE LET shorter == SeqsUpTo(A, n - 1)
         IN  shorter \cup {Append(s, a) : s \in {t \in shorter : Len(t) = n - 1}, a \in A}

LowerChars == <<"a","b","c","d","e","f","g","h","i","j","k","l","m",
                "n","o","p","q","r","s","t","u","v","w","x","y","z">>
UpperChars == <<"A","B","C","D","E","F","G","H","I","J","K","L","M",
                "N","O","P","Q","R","S","T","U","V","W","X","Y","Z">>
Digits == {"0","1","2","3","4","5","6","7","8","9"}
Whitespace == {" ", "\t"}

UpperTable ==
    [c \in {LowerChars[i] : i \in 1..Len(LowerChars)} |->
        UpperChars[CHOOSE i \in 1..Len(LowerChars) : LowerChars[i] = c]]

UpperChar(c) == IF c \in DOMAIN UpperTable THEN UpperTable[c] ELSE c

\* str.upper()
Upper(s) == [i \in 1..Len(s) |-> UpperChar(s[i])]

RECURSIVE LStripChars(_, _)
LStripChars(s, chars) ==
    IF s # <<>> /\ Head(s) \in chars THEN LStripChars(Tail(s), chars) ELSE s

RECURSIVE RStripChars(_, _)
RStripChars(s, chars) ==
    IF s # <<>> /\ s[Len(s)] \in chars
    THEN RStripChars(SubSeq(s, 1, Len(s) - 1), chars)
    ELSE s

\* str.strip(chars)
StripChars(s, chars) == RStripChars(LStripChars(s, chars), chars)

\* str.strip()
Strip(s) == StripChars(s, Whitespace)

\* str(x): None prints as the four letters "None"
Str(x) == IF x = NONE THEN <<"N","o","n","e">> ELSE x

RECURSIVE Join(_, _)
\* sep.join(parts)
Join(sep, parts) ==
    IF parts = <<>> THEN <<>>
    ELSE IF Len(parts) = 1 THEN parts[1]
    ELSE parts[1] \o sep \o Join(sep, Tail(parts))

(* ------------------------ string literals ------------------------------ *)
S_IMO == <<"I","M","O">>
S_IMO_NUMBER == <<"I","M","O","_","N","U","M","B","E","R">>
S_IMO_NO == <<"I","M","O","_","N","O">>
S_IMO_NO_ == <<"I","M","O","_","N","O","_">>
S_FLAG == <<"F","L","A","G">>
S_NAME == <<"N","A","M","E">>
S_N_A == <<"N","/","A">>
S_NA == <<"N","A">>
S_NONE == <<"N","O","N","E">>
S_NULL == <<"N","U","L","L">>
S_EMDASH == <<"em-dash">>
S_DASH == <<"-">>
S_unknown == <<"u","n","k","n","o","w","n">>
S_empty == <<"e","m","p","t","y">>
NULL_TOKEN == <<"<","N","U","L","L",">">>

(* --------------------------- load_config -------------------------------- *)
DEFAULT_ALIAS_MAP ==
    (S_IMO_NUMBER :> S_IMO) @@ (S_IMO_NO :> S_IMO) @@ (S_IMO_NO_ :> S_IMO)

DefaultConfig ==
    [ join_key |-> S_IMO,
      aliases |-> DEFAULT_ALIAS_MAP,
      case_insensitive_columns |-> <<S_FLAG>>,
      date_columns |-> <<>>,
      numeric |-> <<>>,
      date_formats |-> FALSE,
      float_precision |-> [is_none |-> TRUE, val |-> 0],
      ignore_whitespace |-> TRUE,
      null_values |-> << <<>>, S_N_A, S_NA, S_NONE, S_NULL, S_EMDASH, S_DASH >>,
      null_categories |-> EmptyMap,
      null_policy |-> [ count_match_null_as_positive |-> TRUE,
                        count_info_gain_as_positive |-> TRUE,
                        count_info_loss_as_negative |-> TRUE ],
      composite_keys |-> <<>>,
      composite_overrides |-> EmptyMap ]

Has(d, k) == k \in DOMAIN d

\* dict.update with upper-cased keys and values (aliases)
UpdateAliases(old, new) ==
    LET newkeys == {Upper(Str(k)) : k \in DOMAIN new}
        \* a later item overwrites an earlier one with the same upper-cased key
        val(uk) == Upper(Str(new[CHOOSE k \in DOMAIN new : Upper(Str(k)) = uk]))
    IN  [k \in (DOMAIN old) \cup newkeys |-> IF k \in newkeys THEN val(k) ELSE old[k]]

\* [[str(x).upper() for x in s] for s in sets]
UpperSets(sets) == [i \in 1..Len(sets) |-> [j \in 1..Len(sets[i]) |-> Upper(Str(sets[i][j]))]]

\* yaml.safe_load raised: the document is not YAML
UnparseableDoc == ("<unparseable>" :> TRUE)

\* a value of the numeric mapping: a number (an int, or the float .inf), or a
\* string, which the isinstance test of line 95 drops
NumInt(n) == [kind |-> "int", val |-> n]
NumInf == [kind |-> "inf", val |-> 0]
NumStr == [kind |-> "str", val |-> 0]

\* line 95: int(v) raises OverflowError on an infinite float
NumericRaises(d) ==
    Has(d, "numeric") /\ \E i \in 1..Len(d.numeric) : d.numeric[i][2].kind = "inf"

\* the isinstance tests of load_config pass on the documents generated here,
\* except for the values of numeric; the try of lines 71-161 ends at the first
\* exception and keeps what was assigned before it
load_config(d) ==
    LET c0 == DefaultConfig
        c1 == IF Has(d, "join_key")
              THEN [c0 EXCEPT !.join_key =
                        IF d.join_key # NONE THEN Upper(Str(d.join_key)) ELSE NONE]
              ELSE c0
        c2 == IF Has(d, "aliases")
              THEN [c1 EXCEPT !.aliases = UpdateAliases(c1.aliases, d.aliases)]
              ELSE c1
        c3 == IF Has(d, "case_insensitive_columns")
              THEN [c2 EXCEPT !.case_insensitive_columns =
                        [i \in 1..Len(d.case_insensitive_columns) |->
                            Upper(Str(d.case_insensitive_columns[i]))]]
              ELSE c2
        c3d == IF Has(d, "date_columns")
               THEN [c3 EXCEPT !.date_columns =
                        [i \in 1..Len(d.date_columns) |-> Upper(Str(d.date_columns[i]))]]
               ELSE c3
        c3n == IF Has(d, "numeric")
               THEN [c3d EXCEPT !.numeric =
                        LET kept == SelectSeq(d.numeric, LAMBDA it : it[2].kind = "int")
                        IN  [i \in 1..Len(kept) |->
                                <<Upper(Str(kept[i][1])), kept[i][2].val>>]]
               ELSE c3d
        c3f == IF Has(d, "ignore_transformations")
                  /\ Has(d.ignore_transformations, "date_formats")
               THEN [c3n EXCEPT !.date_formats = d.ignore_transformations.date_formats]
               ELSE c3n
        c3t == IF Has(d, "ignore_transformations")
                  /\ Has(d.ignore_transformations, "float_precision")
               THEN [c3f EXCEPT !.float_precision =
                        [is_none |-> FALSE, val |-> d.ignore_transformations.float_precision]]
               ELSE c3f
        c4 == IF Has(d, "null_values")
              THEN [c3t EXCEPT !.null_values =
                        [i \in 1..Len(d.null_values) |-> Str(d.null_values[i])]]
              ELSE c3t
        c5 == IF Has(d, "null_categories")
              THEN [c4 EXCEPT !.null_categories =
                        [k \in DOMAIN d.null_categories |-> Str(d.null_categories[k])]]
              ELSE c4
        c6 == IF Has(d, "null_policy")
              THEN [c5 EXCEPT !.null_policy =
                        [f \in DOMAIN c5.null_policy |->
                            IF Has(d.null_policy, f) THEN d.null_policy[f]
                            ELSE c5.null_policy[f]]]
              ELSE c5
        c7 == IF Has(d, "composite_keys")
              THEN [c6 EXCEPT !.composite_keys = UpperSets(d.composite_keys)]
              ELSE c6
    IN  IF Has(d, "<unparseable>") THEN c0
        ELSE IF NumericRaises(d) THEN c3d
        ELSE c7

(* ------------------------- canonicalize_null ---------------------------- *)
\* faulty variant: the membership test on the untrimmed value
canonicalize_null_untrimmed(v) ==
    LET value_str == Strip(Str(v))
    IN  IF Str(v) \in Range(cfg.null_values) \/ Str(v) = <<>>
        THEN [ is_null |-> TRUE, canonical_value |-> NULL_TOKEN,
               null_reason |-> IF value_str \in DOMAIN cfg.null_categories
                               THEN cfg.null_categories[value_str]
                               ELSE IF value_str # <<>> THEN S_unknown ELSE S_empty ]
        ELSE [ is_null |-> FALSE, canonical_value |-> value_str, null_reason |-> NONE ]

canonicalize_null(v) ==
    LET value_str == Strip(Str(v))
    IN  IF value_str \in Range(cfg.null_values) \/ value_str = <<>>
        THEN [ is_null |-> TRUE, canonical_value |-> NULL_TOKEN,
               null_reason |-> IF value_str \in DOMAIN cfg.null_categories
                               THEN cfg.null_categories[value_str]
                               ELSE IF value_str # <<>> THEN S_unknown ELSE S_empty ]
        ELSE [ is_null |-> FALSE, canonical_value |-> value_str, null_reason |-> NONE ]

(* --------------------------- canon_col_name ----------------------------- *)
AlnumChars == Range(UpperChars) \cup Digits
IsAlnum(c) == c \in AlnumChars

RECURSIVE CollapseNonAlnum(_)
\* re.sub(r"[^A-Z0-9]+", "_", s)
CollapseNonAlnum(s) ==
    IF s = <<>> THEN <<>>
    ELSE IF IsAlnum(Head(s)) THEN <<Head(s)>> \o CollapseNonAlnum(Tail(s))
    ELSE LET rest == CollapseNonAlnum(Tail(s))
         IN  IF Len(s) > 1 /\ ~IsAlnum(s[2]) THEN rest ELSE <<"_">> \o rest

canon_col_name(s) ==
    LET s1 == Upper(IF s = NONE THEN <<>> ELSE s)
        s2 == CollapseNonAlnum(s1)
        s3 == StripChars(s2, {"_"})
    IN  IF s3 \in DOMAIN cfg.aliases THEN cfg.aliases[s3] ELSE s3


(* ------------------------ composite_key_sets ---------------------------- *)
composite_key_sets(slug) ==
    IF slug \in DOMAIN cfg.composite_overrides
    THEN UpperSets(cfg.composite_overrides[slug])
    ELSE UpperSets(cfg.composite_keys)

(* ------------------------------ inputs ---------------------------------- *)
\* pandas.read_csv without keep_default_na=False reads these cells as NaN
PandasDefaultNa ==
    { <<>>, <<"#","N","/","A">>, <<"#","N","/","A"," ","N","/","A">>, <<"#","N","A">>,
      <<"-","1",".","#","I","N","D">>, <<"-","1",".","#","Q","N","A","N">>,
      <<"-","N","a","N">>, <<"-","n","a","n">>, <<"1",".","#","I","N","D">>,
      <<"1",".","#","Q","N","A","N">>, <<"<","N","A",">">>, S_N_A, S_NA, S_NULL,
      <<"N","a","N">>, <<"N","o","n","e">>, <<"n","/","a">>, <<"n","a","n">>,
      <<"n","u","l","l">> }

\* pd.read_csv(path, dtype=str).fillna(""): row index (from 0) -> column position -> cell
ReadBaselineCsv(b) ==
    [ columns |-> b.header,
      index |-> 0..(Len(b.rows) - 1),
      at |-> [i \in 0..(Len(b.rows) - 1) |->
                [j \in 1..Len(b.header) |->
                    IF b.rows[i + 1][j] \in PandasDefaultNa THEN <<>> ELSE b.rows[i + 1][j]]] ]

NaNRow == 0 - 1

(* --------------------------- baseline_to_long --------------------------- *)
Truthy(x) == x # NONE /\ x # <<>>

\* faulty variant: a null constituent does not make the set incomplete
RECURSIVE BaselinePartsAll(_, _, _, _)
BaselinePartsAll(row, canon_to_orig, set_cols, i) ==
    IF i > Len(set_cols) THEN [missing |-> FALSE, parts |-> <<>>]
    ELSE LET v == Strip(Str(row[canon_to_orig[set_cols[i]]]))
             rest == BaselinePartsAll(row, canon_to_orig, set_cols, i + 1)
         IN  [missing |-> rest.missing, parts |-> <<v>> \o rest.parts]

\* one pass of "for c in set_cols" (lines 276-283): the parts, or missing
RECURSIVE BaselineParts(_, _, _, _)
BaselineParts(row, canon_to_orig, set_cols, i) ==
    IF i > Len(set_cols) THEN [missing |-> FALSE, parts |-> <<>>]
    ELSE LET v == Strip(Str(row[canon_to_orig[set_cols[i]]]))
         IN  IF (v = <<>>) \/ canonicalize_null(v).is_null
             THEN [missing |-> TRUE, parts |-> <<>>]
             ELSE LET rest == BaselineParts(row, canon_to_orig, set_cols, i + 1)
                  IN  [missing |-> rest.missing, parts |-> <<v>> \o rest.parts]

RECURSIVE BaselineCompositeKey(_, _, _, _)
\* "for set_cols in composite_sets" (lines 270-286): first complete set wins
BaselineCompositeKey(row, canon_to_orig, sets, k) ==
    IF k > Len(sets) THEN NONE
    ELSE IF ~(\A i \in 1..Len(sets[k]) : sets[k][i] \in DOMAIN canon_to_orig)
         THEN BaselineCompositeKey(row, canon_to_orig, sets, k + 1)
    ELSE LET p == BaselineParts(row, canon_to_orig, sets[k], 1)
         IN  IF ~p.missing /\ p.parts # <<>>
             THEN Join(<<"|", "|">>, p.parts)
             ELSE BaselineCompositeKey(row, canon_to_orig, sets, k + 1)

baseline_to_long(b) ==
    LET df == ReadBaselineCsv(b)
        ncols == Len(df.columns)
        canon(j) == canon_col_name(Strip(Str(df.columns[j])))
        join_key_col == cfg.join_key
        jkcols == IF Truthy(join_key_col)
                  THEN {j \in 1..ncols : canon(j) = Upper(join_key_col)}
                  ELSE {}
        jkcol == CHOOSE j \in jkcols : \A j2 \in jkcols : j <= j2
        join_key_values ==
            IF jkcols = {} THEN EmptyMap
            ELSE [i \in df.index |->
                    LET val_str == Strip(Str(df.at[i][jkcol]))
                    IN  IF val_str # <<>> THEN val_str ELSE NONE]
        composite_sets == composite_key_sets(b.slug)
        \* {canon_col_name(c): c for c in df.columns}: the last column of a name wins
        names == {canon_col_name(df.columns[j]) : j \in 1..ncols}
        canon_to_orig ==
            [n \in names |->
                CHOOSE j \in 1..ncols :
                    /\ canon_col_name(df.columns[j]) = n
                    /\ \A j2 \in 1..ncols : canon_col_name(df.columns[j2]) = n => j2 <= j]
        composite_values ==
            IF composite_sets = <<>> THEN EmptyMap
            ELSE [i \in df.index |->
                    BaselineCompositeKey(df.at[i], canon_to_orig, composite_sets, 1)]
        has_jk == DOMAIN join_key_values # {}
        has_ck == DOMAIN composite_values # {}
    IN  [ columns |-> IF df.index = {} THEN {}
                      ELSE {"row_index", "column_name", "baseline_value"}
                             \cup (IF has_jk THEN {"join_key"} ELSE {})
                             \cup (IF has_ck THEN {"composite_key"} ELSE {}),
          rows |-> { [ row_index |-> i,
                       column_name |-> canon(j),
                       baseline_value |-> Str(df.at[i][j]),
                       join_key |-> IF has_jk THEN join_key_values[i] ELSE NONE,
                       composite_key |-> IF has_ck THEN composite_values[i] ELSE NONE ]
                     : i \in df.index, j \in 1..ncols } ]

(* -------------------------- normalize_pipeline -------------------------- *)
\* the cells of the export with canonical column names (lines 343-349)
PipelineCells(p) ==
    { [ pos |-> n, row_index |-> p[n].row_index,
        column_name |-> canon_col_name(Strip(Str(p[n].column_name))),
        cleaned_value |-> Str(p[n].cleaned_value) ] : n \in 1..Len(p) }

\* pivot_table(index='row_index', columns='column_name', aggfunc='first').fillna("")
PivotFirst(subset) ==
    LET idx == {c.row_index : c \in subset}
        cols == {c.column_name : c \in subset}
        cell(i, n) == {c \in subset : c.row_index = i /\ c.column_name = n}
        first(i, n) == CHOOSE c \in cell(i, n) : \A d \in cell(i, n) : c.pos <= d.pos
    IN  [i \in idx |-> [n \in cols |-> IF cell(i, n) = {} THEN <<>>
                                       ELSE first(i, n).cleaned_value]]

\* one pass of "for c in set_cols" (lines 380-386)
RECURSIVE PipelineParts(_, _, _)
PipelineParts(row, set_cols, i) ==
    IF i > Len(set_cols) THEN [missing |-> FALSE, parts |-> <<>>]
    ELSE LET v == Strip(Str(IF set_cols[i] \in DOMAIN row THEN row[set_cols[i]] ELSE <<>>))
         IN  IF (v = <<>>) \/ canonicalize_null(v).is_null
             THEN [missing |-> TRUE, parts |-> <<>>]
             ELSE LET rest == PipelineParts(row, set_cols, i + 1)
                  IN  [missing |-> rest.missing, parts |-> <<v>> \o rest.parts]

RECURSIVE PipelineCompositeKey(_, _, _)
\* "for set_cols in comp_sets" (lines 377-389)
PipelineCompositeKey(row, sets, k) ==
    IF k > Len(sets) THEN NONE
    ELSE LET p == PipelineParts(row, sets[k], 1)
         IN  IF ~p.missing /\ p.parts # <<>>
             THEN Join(<<"|", "|">>, p.parts)
             ELSE PipelineCompositeKey(row, sets, k + 1)

normalize_pipeline(p, slug) ==
    LET cells == PipelineCells(p)
        join_key_col == cfg.join_key
        join_key_rows == IF Truthy(join_key_col)
                         THEN {c \in cells : c.column_name = Upper(join_key_col)}
                         ELSE {}
        \* set_index('row_index')['cleaned_value'].to_dict(): the last cell of a row wins
        last(i) == CHOOSE c \in join_key_rows :
                      /\ c.row_index = i
                      /\ \A d \in join_key_rows : d.row_index = i => d.pos <= c.pos
        join_key(i) == IF \E c \in join_key_rows : c.row_index = i
                       THEN last(i).cleaned_value ELSE NONE
        comp_sets == composite_key_sets(slug)
        union_cols == UNION {Range(comp_sets[k]) : k \in 1..Len(comp_sets)}
        subset == {c \in cells : c.column_name \in {Upper(u) : u \in union_cols}}
        wide == PivotFirst(subset)
        composite_key(i) == IF comp_sets # <<>> /\ i \in DOMAIN wide
                            THEN PipelineCompositeKey(wide[i], comp_sets, 1)
                            ELSE NONE
    IN  [ columns |-> {"row_index", "column_name", "cleaned_value"}
                         \cup (IF Truthy(join_key_col) THEN {"join_key"} ELSE {})
                         \cup (IF comp_sets # <<>> THEN {"composite_key"} ELSE {}),
          rows |-> { [ row_index |-> c.row_index,
                       column_name |-> c.column_name,
                       cleaned_value |-> c.cleaned_value,
                       join_key |-> join_key(c.row_index),
                       composite_key |-> composite_key(c.row_index) ] : c \in cells } ]

(* ------------------------------ alignment ------------------------------- *)
\* _has_key of compare_files (lines 414-416), for one value
has_key(x) == x # NONE /\ x # <<>> /\ ~canonicalize_null(Str(x)).is_null

\* faulty variant: no key is taken for a duplicate
DupKeysNone(rows, on) == {}
\* keys carried by more than one row_index: drop_duplicates + duplicated(keep=False)
DupKeys(rows, on) ==
    {k \in {r[on] : r \in rows} :
        Cardinality({r.row_index : r \in {q \in rows : q[on] = k}}) > 1}

\* DataFrame.merge(how='outer', indicator=True) on [on, 'column_name']
MergeRecord(l, r, on, stage, ind) ==
    [ aligned_by |-> stage,
      merge |-> ind,
      column_name |-> IF ind = "right_only" THEN r.column_name ELSE l.column_name,
      key |-> IF on = "row_index" THEN NONE
              ELSE IF ind = "right_only" THEN r[on] ELSE l[on],
      row_index |-> IF on # "row_index" THEN NaNRow
                    ELSE IF ind = "right_only" THEN r.row_index ELSE l.row_index,
      row_index_baseline |-> IF on = "row_index" \/ ind = "right_only"
                             THEN NaNRow ELSE l.row_index,
      row_index_pipeline |-> IF on = "row_index" \/ ind = "left_only"
                             THEN NaNRow ELSE r.row_index,
      baseline_value |-> IF ind = "right_only" THEN NONE ELSE l.baseline_value,
      cleaned_value |-> IF ind = "left_only" THEN NONE ELSE r.cleaned_value ]

OuterMerge(L, R, on, stage) ==
    LET match(l, r) == l[on] = r[on] /\ l.column_name = r.column_name
    IN  {MergeRecord(l, r, on, stage, "both") : <<l, r>> \in {p \in L \X R : match(p[1], p[2])}}
        \cup {MergeRecord(l, l, on, stage, "left_only") :
                 l \in {x \in L : ~\E r \in R : match(x, r)}}
        \cup {MergeRecord(r, r, on, stage, "right_only") :
                 r \in {x \in R : ~\E l \in L : match(l, x)}}

\* faulty variant: every merged cell of the part is counted
CountAll(part) == Cardinality(part)
\* int((part['_merge'] == 'both').sum())
CountBoth(part) == Cardinality({m \in part : m.merge = "both"})

\* the condition of stage 1 (lines 425-431)
JoinKeyStageRuns ==
    /\ Truthy(cfg.join_key)
    /\ "join_key" \in base_long.columns
    /\ "join_key" \in pipe_df.columns
    /\ \E r \in base_long.rows : r.join_key # NONE
    /\ \E r \in pipe_df.rows : r.join_key # NONE

\* the condition of stage 2 (line 488)
CompositeStageRuns ==
    /\ composite_key_sets(baseline.slug) # <<>>
    /\ "composite_key" \in base_long.columns
    /\ "composite_key" \in pipe_df.columns

\* faulty variant: a stage leaves every row in the pool
RemainingKeepAll(remaining, used_rows) == remaining
\* remaining[~remaining['row_index'].isin(used_rows)]
Remaining(remaining, used_rows) == {r \in remaining : r.row_index \notin used_rows}

\* faulty variant: rows without a key enter the key stage too
KeyStageRowsNoKeyTest(rows, on, dup_any) ==
    {r \in rows : r[on] \notin dup_any}
\* the rows of a side that enter a key stage (lines 434-450, 490-504)
KeyStageRows(rows, on, dup_any) ==
    {r \in rows : has_key(r[on]) /\ r[on] \notin dup_any}

\* faulty variant: the duplicates of the baseline side are forgotten
DupAnyPipelineOnly(base_k, pipe_k, on) == DupKeys(pipe_k, on)
\* faulty variant: the duplicates of the pipeline side are forgotten
DupAnyBaselineOnly(base_k, pipe_k, on) == DupKeys(base_k, on)
\* dup_any = dup_base_keys.union(dup_pipe_keys)
DupAny(base_k, pipe_k, on) == DupKeys(base_k, on) \cup DupKeys(pipe_k, on)

\* faulty variant: only the rows that found a counterpart leave the pool
UsedRowsMatchedOnly(unique, other_unique, on) ==
    {r.row_index : r \in {u \in unique : \E o \in other_unique : o[on] = u[on]}}
\* set(unique['row_index'].unique()) (lines 465-466, 516-517)
UsedRows(unique, other_unique, on) == {r.row_index : r \in unique}

\* one key stage (join_key: lines 434-470; composite: lines 490-521)
KeyStage(base_rem, pipe_rem, on, stage) ==
    LET base_k == KeyStageRows(base_rem, on, {})
        pipe_k == KeyStageRows(pipe_rem, on, {})
        dup_any == DupAny(base_k, pipe_k, on)
        base_unique == KeyStageRows(base_rem, on, dup_any)
        pipe_unique == KeyStageRows(pipe_rem, on, dup_any)
    IN  [ part |-> OuterMerge(base_unique, pipe_unique, on, stage),
          used_base_rows |-> UsedRows(base_unique, pipe_unique, on),
          used_pipe_rows |-> UsedRows(pipe_unique, base_unique, on) ]

(* --------------------------- cell comparison ---------------------------- *)
\* Series.astype(str): NaN prints as "nan"
AsTypeStr(x) == IF x = NONE THEN <<"n","a","n">> ELSE x

(* ------------------------- numeric rounding ----------------------------- *)
DigitChars == <<"0","1","2","3","4","5","6","7","8","9">>
DigitVal(c) == (CHOOSE n \in 1..10 : DigitChars[n] = c) - 1

RECURSIVE NatOf(_)
\* the number written by a string of digits
NatOf(s) ==
    IF s = <<>> THEN 0
    ELSE NatOf(SubSeq(s, 1, Len(s) - 1)) * 10 + DigitVal(s[Len(s)])

RECURSIVE NatStr(_)
\* str(n) of a natural number
NatStr(n) ==
    IF n < 10 THEN <<DigitChars[n + 1]>>
    ELSE NatStr(n \div 10) \o <<DigitChars[(n % 10) + 1]>>

RECURSIVE Pow10(_)
Pow10(k) == IF k = 0 THEN 1 ELSE 10 * Pow10(k - 1)

RECURSIVE ZeroPad(_, _)
\* the digits of n on k places
ZeroPad(n, k) == IF k = 0 THEN <<>> ELSE ZeroPad(n \div 10, k - 1) \o <<DigitChars[(n % 10) + 1]>>

\* float(x) for the unsigned decimal literals "12" and "12.34", blanks around
\* them allowed: the value is units / 10^decimals; anything else raises
ParseFloat(x) ==
    LET s == Strip(x)
        dots == {i \in 1..Len(s) : s[i] = "."}
        allDigits(t) == t # <<>> /\ \A i \in 1..Len(t) : t[i] \in Digits
    IN  IF dots = {}
        THEN IF allDigits(s) THEN [ok |-> TRUE, units |-> NatOf(s), decimals |-> 0]
             ELSE [ok |-> FALSE, units |-> 0, decimals |-> 0]
        ELSE LET i == CHOOSE j \in dots : TRUE
                 whole == SubSeq(s, 1, i - 1)
                 frac == SubSeq(s, i + 1, Len(s))
             IN  IF Cardinality(dots) = 1 /\ allDigits(whole) /\ allDigits(frac)
                 THEN [ok |-> TRUE, units |-> NatOf(whole \o frac), decimals |-> Len(frac)]
                 ELSE [ok |-> FALSE, units |-> 0, decimals |-> 0]

\* round(val, precision): to the nearest, a tie to the even neighbour
RoundTo(v, precision) ==
    IF precision >= v.decimals THEN v
    ELSE LET q == Pow10(v.decimals - precision)
             lo == v.units \div q
             r == v.units % q
             up == (2 * r > q) \/ (2 * r = q /\ lo % 2 = 1)
         IN  [ok |-> TRUE, units |-> IF up THEN lo + 1 ELSE lo, decimals |-> precision]

\* f"{v:.{precision}f}"
FormatFixed(v, precision) ==
    LET u == v.units * Pow10(precision - v.decimals)
    IN  NatStr(u \div Pow10(precision)) \o <<".">> \o ZeroPad(u % Pow10(precision), precision)

\* _try_round (lines 694-699, 714-719)
TryRound(x, precision) ==
    LET val == ParseFloat(x)
    IN  IF ~val.ok THEN x
        ELSE IF precision > 0
        THEN RStripChars(RStripChars(FormatFixed(RoundTo(val, precision), precision), {"0"}),
                         {"."})
        ELSE NatStr(RoundTo(val, 0).units)

RECURSIVE RoundPerColumn(_, _, _)
\* lines 703-708: the loop over numeric_config.items()
RoundPerColumn(items, column_name, x) ==
    IF items = <<>> THEN x
    ELSE RoundPerColumn(Tail(items), column_name,
                        IF column_name = Upper(Head(items)[1])
                        THEN TryRound(x, Head(items)[2]) ELSE x)

\* lines 710-722: the global precision, on the whole cmp column
RoundGlobal(c, x) ==
    IF ~c.float_precision.is_none THEN TryRound(x, c.float_precision.val) ELSE x

\* lines 689-722
RoundNumeric(c, column_name, x) ==
    RoundGlobal(c, RoundPerColumn(c.numeric, column_name, x))

(* ------------------------- date normalization --------------------------- *)
\* pd.to_datetime(x, errors='coerce', dayfirst=...) of one value, for the
\* literals "dd/dd/dddd" and "dddd-dd-dd"; every other value gives NaT. The
\* slash form is read in the preferred order and, when that gives no month,
\* in the other order; the ISO form is read as year-month-day in both cases.
NaT == [ok |-> FALSE, year |-> 0, month |-> 0, day |-> 0]
ParseDate(x, dayfirst) ==
    LET digitsAt(I) == \A i \in I : x[i] \in Digits
        num(a, b) == NatOf(SubSeq(x, a, b))
        ymd(y, m, d) ==
            IF m \in 1..12 /\ d \in 1..31
            THEN [ok |-> TRUE, year |-> y, month |-> m, day |-> d] ELSE NaT
    IN  IF Len(x) # 10 THEN NaT
        ELSE IF x[3] = "/" /\ x[6] = "/" /\ digitsAt({1, 2, 4, 5, 7, 8, 9, 10})
        THEN LET first == num(1, 2)
                 second == num(4, 5)
                 year == num(7, 10)
                 preferred == IF dayfirst THEN ymd(year, second, first)
                              ELSE ymd(year, first, second)
                 other == IF dayfirst THEN ymd(year, first, second)
                          ELSE ymd(year, second, first)
             IN  IF preferred.ok THEN preferred ELSE other
        ELSE IF x[5] = "-" /\ x[8] = "-" /\ digitsAt({1, 2, 3, 4, 6, 7, 9, 10})
        THEN ymd(num(1, 4), num(6, 7), num(9, 10))
        ELSE NaT

\* dt.strftime('%Y-%m-%d'), pd.NA for NaT
IsoDate(dt) ==
    IF dt.ok
    THEN ZeroPad(dt.year, 4) \o <<"-">> \o ZeroPad(dt.month, 2) \o <<"-">> \o ZeroPad(dt.day, 2)
    ELSE NONE

\* faulty variant: a scheme is adopted as soon as both sides parse
DatesBothParse(b_iso, p_iso) == b_iso # NONE /\ p_iso # NONE
\* eq_md, eq_dm: b.notna() & p.notna() & (b == p)
DatesAgree(b_iso, p_iso) == b_iso # NONE /\ p_iso # NONE /\ b_iso = p_iso

\* lines 612-687 for one merged cell: <<cmp_baseline, cmp_pipeline>>
NormalizeDates(c, column_name, b, p) ==
    LET date_cols == c.date_columns
        in_scope == date_cols = <<>> \/ column_name \in {Upper(x) : x \in Range(date_cols)}
        b_md == IsoDate(ParseDate(b, FALSE))
        p_md == IsoDate(ParseDate(p, FALSE))
        b_dm == IsoDate(ParseDate(b, TRUE))
        p_dm == IsoDate(ParseDate(p, TRUE))
    IN  IF ~c.date_formats \/ ~in_scope THEN <<b, p>>
        ELSE IF DatesAgree(b_md, p_md) THEN <<b_md, p_md>>
        ELSE IF DatesAgree(b_dm, p_dm) THEN <<b_dm, p_dm>>
        ELSE <<b, p>>

\* the cmp_* columns (lines 549-722); the unicode and value-mapping steps are
\* switched off in the configurations generated here
Normalize(m) ==
    LET pipeline_value == IF m.cleaned_value = NONE THEN <<>> ELSE m.cleaned_value
        nb == canonicalize_null(AsTypeStr(m.baseline_value))
        np == canonicalize_null(AsTypeStr(pipeline_value))
        ws(info) == IF cfg.ignore_whitespace /\ ~info.is_null
                    THEN Strip(info.canonical_value) ELSE info.canonical_value
        ci == m.column_name \in {Upper(c) : c \in Range(cfg.case_insensitive_columns)}
        fold(x) == IF ci THEN Upper(x) ELSE x
        dates == NormalizeDates(cfg, m.column_name, fold(ws(nb)), fold(ws(np)))
    IN  [ f \in (DOMAIN m) \cup {"pipeline_value", "cmp_baseline", "cmp_pipeline",
                                "is_null_baseline", "is_null_pipeline",
                                "null_reason_baseline", "null_reason_pipeline"} |->
            CASE f = "pipeline_value" -> pipeline_value
              [] f = "cmp_baseline" -> RoundNumeric(cfg, m.column_name, dates[1])
              [] f = "cmp_pipeline" -> RoundNumeric(cfg, m.column_name, dates[2])
              [] f = "is_null_baseline" -> nb.is_null
              [] f = "is_null_pipeline" -> np.is_null
              [] f = "null_reason_baseline" -> nb.null_reason
              [] f = "null_reason_pipeline" -> np.null_reason
              [] OTHER -> m[f] ]

\* faulty variant: changed_value without the two non-null tests
DiffClassLoose(r) ==
    LET c1 == IF ~r.is_null_baseline /\ ~r.is_null_pipeline
                 /\ r.cmp_baseline = r.cmp_pipeline THEN "match_value" ELSE "unknown"
        c2 == IF r.is_null_baseline /\ r.is_null_pipeline THEN "match_null" ELSE c1
        c3 == IF r.is_null_baseline /\ ~r.is_null_pipeline THEN "info_gain" ELSE c2
        c4 == IF ~r.is_null_baseline /\ r.is_null_pipeline THEN "info_loss" ELSE c3
        c5 == IF r.cmp_baseline # r.cmp_pipeline THEN "changed_value" ELSE c4
    IN  c5

\* the five masks, applied in the order of lines 731-758
DiffClass(r) ==
    LET c1 == IF r.merge = "both" /\ ~r.is_null_baseline /\ ~r.is_null_pipeline
                 /\ r.cmp_baseline = r.cmp_pipeline THEN "match_value" ELSE "unknown"
        c2 == IF r.merge = "both" /\ r.is_null_baseline /\ r.is_null_pipeline
              THEN "match_null" ELSE c1
        c3 == IF r.merge = "both" /\ r.is_null_baseline /\ ~r.is_null_pipeline
              THEN "info_gain" ELSE c2
        c4 == IF r.merge = "both" /\ ~r.is_null_baseline /\ r.is_null_pipeline
              THEN "info_loss" ELSE c3
        c5 == IF r.merge = "both" /\ ~r.is_null_baseline /\ ~r.is_null_pipeline
                 /\ r.cmp_baseline # r.cmp_pipeline THEN "changed_value" ELSE c4
    IN  c5

WithClass(r) == [f \in (DOMAIN r) \cup {"diff_class"} |->
                    IF f = "diff_class" THEN DiffClass(r) ELSE r[f]]

\* f"{num/den:.4f}" in units of 0.0001 (no decimal tie occurs for den < 32)
Round4(num, den) == (2 * 10000 * num + den) \div (2 * den)

CountClass(rows, c) == Cardinality({r \in rows : r.diff_class = c})

\* faulty variant: the rate over every merged cell instead of the aligned ones
NullAwareRateOverTotal(positive_count, n_both, total) ==
    IF total > 0 THEN Round4(positive_count, total) ELSE 0
\* null_aware_match_rate (line 788) as written to the summary (line 842)
NullAwareRate(positive_count, n_both, total) ==
    IF n_both > 0 THEN Round4(positive_count, n_both) ELSE 0

\* faulty variant: only the cells of class match_value are counted as matched
MatchedByValueClass(both_cells, mismatched_cells) == CountClass(both_cells, "match_value")
\* matched = both.shape[0] - mismatched.shape[0] (line 784)
Matched(both_cells, mismatched_cells) ==
    Cardinality(both_cells) - Cardinality(mismatched_cells)

\* the summary row of compare_files (lines 760-788, 841-843)
SummaryRow ==
    LET count_match_value == CountClass(both, "match_value")
        count_match_null == CountClass(both, "match_null")
        count_info_gain == CountClass(both, "info_gain")
        count_info_loss == CountClass(both, "info_loss")
        count_changed_value == CountClass(both, "changed_value")
        null_policy == cfg.null_policy
        positive_count ==
            count_match_value
              + (IF null_policy.count_match_null_as_positive THEN count_match_null ELSE 0)
              + (IF null_policy.count_info_gain_as_positive THEN count_info_gain ELSE 0)
        mismatched == {r \in both : r.cmp_baseline # r.cmp_pipeline}
        matched == Matched(both, mismatched)
        total == Cardinality(merged)
    IN  [ baseline_file |-> baseline.slug,
          total_cells |-> total,
          matched |-> matched,
          baseline_only |-> Cardinality(only_baseline),
          pipeline_only |-> Cardinality(only_pipeline),
          mismatched |-> Cardinality(mismatched),
          match_rate |-> IF total # 0 THEN Round4(matched, total) ELSE 0,
          null_aware_match_rate |-> NullAwareRate(positive_count, Cardinality(both), total),
          count_match_value |-> count_match_value,
          count_match_null |-> count_match_null,
          count_info_gain |-> count_info_gain,
          count_info_loss |-> count_info_loss,
          count_changed_value |-> count_changed_value,
          aligned_by_join_key |-> aligned_counts.join_key,
          aligned_by_composite |-> aligned_counts.composite,
          aligned_by_row_index |-> aligned_counts.row_index ]

(* ----------------- the per-column presence report ---------------------- *)
\* a percentage kept as the exact quotient num / den
Pct(count, total) ==
    IF total > 0 THEN [num |-> count * 100, den |-> total] ELSE [num |-> 0, den |-> 1]
\* the difference of two percentages
PctMinus(a, b) == [num |-> a.num * b.den - b.num * a.den, den |-> a.den * b.den]

\* (col_both['diff_class'] == c).sum() if 'diff_class' in col_both.columns else 0
ColClass(col_both, c) ==
    IF \A r \in col_both : "diff_class" \in DOMAIN r
    THEN Cardinality({r \in col_both : r.diff_class = c}) ELSE 0
ColAligned(col_both, stage) == Cardinality({r \in col_both : r.aligned_by = stage})

\* one record of presence_records (lines 793-832); col_both is cut from
\* merged, the frame the classes were not written to
PresenceRecord(col_name) ==
    LET col_data == {r \in merged : r.column_name = col_name}
        col_both == {r \in col_data : r.merge = "both"}
        baseline_total == Cardinality(col_both)
        pipeline_total == Cardinality(col_both)
        baseline_non_null == Cardinality({r \in col_both : ~r.is_null_baseline})
        pipeline_non_null == Cardinality({r \in col_both : ~r.is_null_pipeline})
        baseline_non_null_pct == Pct(baseline_non_null, baseline_total)
        pipeline_non_null_pct == Pct(pipeline_non_null, pipeline_total)
    IN  [ column_name |-> col_name,
          baseline_non_null_count |-> baseline_non_null,
          baseline_non_null_pct |-> baseline_non_null_pct,
          pipeline_non_null_count |-> pipeline_non_null,
          pipeline_non_null_pct |-> pipeline_non_null_pct,
          delta_pct |-> PctMinus(pipeline_non_null_pct, baseline_non_null_pct),
          match_value |-> ColClass(col_both, "match_value"),
          match_null |-> ColClass(col_both, "match_null"),
          info_gain |-> ColClass(col_both, "info_gain"),
          info_loss |-> ColClass(col_both, "info_loss"),
          changed_value |-> ColClass(col_both, "changed_value"),
          aligned_by_join_key |-> ColAligned(col_both, "join_key"),
          aligned_by_composite |-> ColAligned(col_both, "composite"),
          aligned_by_row_index |-> ColAligned(col_both, "row_index") ]

\* presence_records, one per value of merged['column_name'].unique()
PresenceRecords == {PresenceRecord(c) : c \in {r.column_name : r \in merged}}

(* ===================== specification of compare_files =================== *)
S_1 == <<"1">>
S_A == <<"A">>
S_a == <<"a">>

BaselineHeader == << <<"I","M","O"," ","N","o">>, <<"N","a","m","e">> >>
BaselineRows == {<<imo, name>> : imo \in {<<>>, S_1}, name \in {S_NA, S_A}}
Baselines ==
    {[slug |-> "PNA", header |-> BaselineHeader, rows |-> t] :
        t \in {x \in SeqsUpTo(BaselineRows, MaxRows) : Len(x) >= 1}}

\* the cells of one exported row: an optional IMO cell and a NAME cell
PipelineRows ==
    {imo \o << <<<<"N","a","m","e">>, name>> >> :
        imo \in {<<>>, << <<<<"i","m","o">>, S_1>> >>}, name \in {S_NA, S_A}}
        \cup { << <<<<"i","m","o">>, S_1>>, <<<<"N","a","m","e">>, S_a>> >> }

RECURSIVE PipelineFile(_, _)
PipelineFile(t, n) ==
    IF n > Len(t) THEN <<>>
    ELSE [k \in 1..Len(t[n]) |->
            [row_index |-> n - 1, column_name |-> t[n][k][1], cleaned_value |-> t[n][k][2]]]
         \o PipelineFile(t, n + 1)

Pipelines == {PipelineFile(t, 1) : t \in SeqsUpTo(PipelineRows, MaxRows)}

\* the worked example of the join key: two baseline rows, the second without
\* IMO, and the three exported cells
S_VESSEL_NAME == <<"V","E","S","S","E","L","_","N","A","M","E">>
S_1234567 == <<"1","2","3","4","5","6","7">>
S_ALPHA == <<"A","L","P","H","A">>
S_BETA == <<"B","E","T","A">>
ExampleBaseline ==
    [slug |-> "PNA", header |-> <<S_IMO, S_VESSEL_NAME>>,
     rows |-> << <<S_1234567, S_ALPHA>>, << <<>>, S_BETA>> >>]
ExamplePipeline ==
    PipelineFile(<< << <<S_IMO, S_1234567>>, <<S_VESSEL_NAME, S_ALPHA>> >>,
                    << <<S_VESSEL_NAME, S_BETA>> >> >>, 1)
\* an export whose only row carries another IMO than any baseline row
UnmatchedPipeline ==
    PipelineFile(<< << <<S_IMO, S_1>>, <<S_VESSEL_NAME, S_ALPHA>> >> >>, 1)
\* an export whose NAME cell is the literal text of the canonical null token
LiteralNullPipeline ==
    PipelineFile(<< << <<<<"i","m","o">>, S_1>>, <<<<"N","a","m","e">>, NULL_TOKEN>> >> >>, 1)
\* an export whose IMO cell carries a trailing blank
PaddedKeyPipeline ==
    PipelineFile(<< << <<<<"i","m","o">>, S_1 \o <<" ">>>>, <<<<"N","a","m","e">>, S_A>> >> >>, 1)

AlignDocs ==
    {a @@ b : a \in Opt("join_key", {NONE}),
              b \in Opt("composite_keys",
                        { << <<<<"i","m","o">>, <<"n","a","m","e">>>>, <<<<"n","a","m","e">>>> >> })}
NullPolicies ==
    { [count_match_null_as_positive |-> FALSE],
      [count_info_gain_as_positive |-> FALSE] }
CompareDocs ==
    Opt("case_insensitive_columns", { <<<<"n","a","m","e">>>> })
        \cup Opt("null_policy", NullPolicies)
DiffDocs == AlignDocs \cup CompareDocs

Init ==
    /\ pc = "start"
    /\ doc \in DiffDocs
    /\ cfg = load_config(doc)
    /\ \/ baseline \in Baselines /\ pipeline \in Pipelines
       \/ baseline = ExampleBaseline /\ pipeline \in {ExamplePipeline, UnmatchedPipeline}
       \/ baseline \in Baselines /\ pipeline \in {LiteralNullPipeline, PaddedKeyPipeline}
    /\ base_long = Unset /\ pipe_df = Unset
    /\ base_remaining = Unset /\ pipe_remaining = Unset
    /\ merged = Unset /\ aligned_counts = Unset
    /\ both = Unset /\ only_baseline = Unset /\ only_pipeline = Unset
    /\ summary = Unset
    /\ diff_files = EmptyMap /\ presence_files = EmptyMap /\ summary_lines = <<>>
    /\ UnusedNull /\ UnusedCol /\ UnusedVal /\ UnusedRun

\* lines 408-423
Load ==
    /\ pc = "start"
    /\ base_long' = baseline_to_long(baseline)
    /\ pipe_df' = normalize_pipeline(pipeline, baseline.slug)
    /\ base_remaining' = base_long'.rows
    /\ pipe_remaining' = pipe_df'.rows
    /\ merged' = {}
    /\ aligned_counts' = [join_key |-> 0, composite |-> 0, row_index |-> 0]
    /\ pc' = "loaded"
    /\ UNCHANGED <<doc, cfg, baseline, pipeline, both, only_baseline, only_pipeline,
                   summary, diff_files, presence_files, summary_lines,
                   nullVars, colVars, valVars, runVars>>

\* stage 1 (lines 425-484)
JoinKeyStage ==
    /\ pc = "loaded"
    /\ IF JoinKeyStageRuns
       THEN LET st == KeyStage(base_remaining, pipe_remaining, "join_key", "join_key")
            IN  /\ merged' = merged \cup st.part
                /\ aligned_counts' = [aligned_counts EXCEPT !.join_key = CountBoth(st.part)]
                /\ base_remaining' = Remaining(base_remaining, st.used_base_rows)
                /\ pipe_remaining' = Remaining(pipe_remaining, st.used_pipe_rows)
       ELSE UNCHANGED <<merged, aligned_counts, base_remaining, pipe_remaining>>
    /\ pc' = "stage1"
    /\ UNCHANGED <<doc, cfg, baseline, pipeline, base_long, pipe_df, both, only_baseline,
                   only_pipeline, summary, diff_files, presence_files, summary_lines,
                   nullVars, colVars, valVars, runVars>>

\* stage 2 (lines 486-532)
CompositeStage ==
    /\ pc = "stage1"
    /\ IF CompositeStageRuns
       THEN LET st == KeyStage(base_remaining, pipe_remaining, "composite_key", "composite")
            IN  /\ merged' = merged \cup st.part
                /\ aligned_counts' = [aligned_counts EXCEPT !.composite = CountBoth(st.part)]
                /\ base_remaining' = Remaining(base_remaining, st.used_base_rows)
                /\ pipe_remaining' = Remaining(pipe_remaining, st.used_pipe_rows)
       ELSE UNCHANGED <<merged, aligned_counts, base_remaining, pipe_remaining>>
    /\ pc' = "stage2"
    /\ UNCHANGED <<doc, cfg, baseline, pipeline, base_long, pipe_df, both, only_baseline,
                   only_pipeline, summary, diff_files, presence_files, summary_lines,
                   nullVars, colVars, valVars, runVars>>

\* DataFrame.merge raises KeyError unless both frames have the columns named
\* by on= (a baseline CSV without data rows gives a frame without columns)
MergeKeysPresent ==
    /\ {"row_index", "column_name"} \subseteq base_long.columns
    /\ {"row_index", "column_name"} \subseteq pipe_df.columns

\* stage 3 and the concatenation (lines 534-547)
RowIndexStage ==
    /\ pc = "stage2"
    /\ IF MergeKeysPresent
       THEN LET merged_idx ==
                    OuterMerge(base_remaining, pipe_remaining, "row_index", "row_index")
            IN  /\ merged' = merged \cup merged_idx
                /\ aligned_counts' =
                       [aligned_counts EXCEPT !.row_index = CountBoth(merged_idx)]
                /\ pc' = "stage3"
       ELSE \* KeyError: nothing catches it, the script ends here
            /\ UNCHANGED <<merged, aligned_counts>>
            /\ pc' = "crashed"
    /\ UNCHANGED <<doc, cfg, baseline, pipeline, base_long, pipe_df, base_remaining,
                   pipe_remaining, both, only_baseline, only_pipeline, summary,
                   diff_files, presence_files, summary_lines,
                   nullVars, colVars, valVars, runVars>>

\* the cmp_* columns, the three subsets and diff_class (lines 549-758)
Classify ==
    /\ pc = "stage3"
    /\ merged' = {Normalize(m) : m \in merged}
    /\ only_baseline' = {m \in merged' : m.merge = "left_only"}
    /\ only_pipeline' = {m \in merged' : m.merge = "right_only"}
    /\ both' = {WithClass(m) : m \in {x \in merged' : x.merge = "both"}}
    /\ pc' = "classified"
    /\ UNCHANGED <<doc, cfg, baseline, pipeline, base_long, pipe_df, base_remaining,
                   pipe_remaining, aligned_counts, summary, diff_files, presence_files, summary_lines,
                   nullVars, colVars, valVars, runVars>>

\* the counts, the rates, {slug}_presence.csv and the summary line
\* (lines 760-843)
Summarize ==
    /\ pc = "classified"
    /\ summary' = SummaryRow
    /\ IF PresenceRecords # {}
       THEN presence_files' = (baseline.slug :> PresenceRecords) @@ presence_files
       ELSE UNCHANGED presence_files
    /\ summary_lines' = Append(summary_lines, SummaryRow)
    /\ pc' = "done"
    /\ UNCHANGED <<doc, cfg, baseline, pipeline, base_long, pipe_df, base_remaining,
                   pipe_remaining, merged, aligned_counts, both, only_baseline,
                   only_pipeline, diff_files,
                   nullVars, colVars, valVars, runVars>>

\* mismatched (line 783)
Mismatched == {r \in both : r.cmp_baseline # r.cmp_pipeline}

\* the early return of a perfect match, else {slug}_diff.csv (lines 845-854)
WriteDiff ==
    /\ pc = "done"
    /\ IF Mismatched = {} /\ only_baseline = {} /\ only_pipeline = {}
       THEN UNCHANGED diff_files
       ELSE diff_files' = (baseline.slug :> Mismatched) @@ diff_files
    /\ pc' = "written"
    /\ UNCHANGED <<doc, cfg, baseline, pipeline, base_long, pipe_df, base_remaining,
                   pipe_remaining, merged, aligned_counts, both, only_baseline,
                   only_pipeline, summary, summary_lines, presence_files,
                   nullVars, colVars, valVars, runVars>>

Next ==
    \/ Load \/ JoinKeyStage \/ CompositeStage \/ RowIndexStage \/ Classify
    \/ Summarize \/ WriteDiff
Spec == Init /\ [][Next]_vars

(* ================= specification of the whole script =================== *)
(* The module-level code of phase_b_diff.py: summary_lines with its        *)
(* "Generated:" line, the loop over baseline_files, the final write of     *)
(* _summary.csv; and a second run of the script over the same files.       *)
\* most baseline files of a run
MaxDatasets == 2
\* latest start of the second run, in clock ticks after the first
MaxElapsed == 1

\* slug of the k-th baseline file of sorted(BASELINE_DIR.glob('*.csv'))
RunSlugs == <<"CCSBT", "IOTC", "PNA", "WCPFC">>

RunBaselineRows == {<<>>, <<<<S_1, S_A>>>>, <<<<<<>>, S_A>>>>}
RunExports ==
    {[found |-> FALSE, cells |-> <<>>]}
        \cup {[found |-> TRUE, cells |-> c] :
                 c \in {<<>>,
                        PipelineFile(<< << <<<<"i","m","o">>, S_1>>,
                                           <<<<"N","a","m","e">>, S_A>> >> >>, 1),
                        PipelineFile(<< << <<<<"N","a","m","e">>, S_a>> >> >>, 1)}}
RunPairs == [rows : RunBaselineRows, export : RunExports]
RunDatasets ==
    {[k \in 1..Len(t) |->
        [slug |-> RunSlugs[k], header |-> BaselineHeader,
         rows |-> t[k].rows, export |-> t[k].export]] :
        t \in {x \in SeqsUpTo(RunPairs, MaxDatasets) : Len(x) >= 1}}

NotWritten == [written |-> FALSE, generated |-> 0, lines |-> <<>>]

InitRun ==
    /\ pc = "loop"
    /\ doc = EmptyMap
    /\ cfg = load_config(doc)
    /\ datasets \in RunDatasets
    /\ queue = datasets
    /\ generated = 1
    /\ summary_lines = <<>>
    /\ summary_csv = NotWritten
    /\ diff_files = EmptyMap /\ presence_files = EmptyMap
    /\ run = 1
    /\ first_run = Unset
    /\ baseline = Unset /\ pipeline = Unset /\ base_long = Unset /\ pipe_df = Unset
    /\ base_remaining = Unset /\ pipe_remaining = Unset /\ merged = Unset
    /\ aligned_counts = Unset /\ both = Unset /\ only_baseline = Unset
    /\ only_pipeline = Unset /\ summary = Unset
    /\ UnusedNull /\ UnusedCol /\ UnusedVal

\* the loop is between two calls of compare_files
AtLoop == pc \in {"loop", "written"}

\* one "for baseline_file in baseline_files" step: the call of compare_files
\* up to its early return (lines 871-872, 401-406)
CompareFiles ==
    /\ AtLoop
    /\ queue # <<>>
    /\ queue' = Tail(queue)
    /\ IF ~Head(queue).export.found
       THEN /\ pc' = "loop"
            /\ UNCHANGED <<baseline, pipeline>>
       ELSE /\ pc' = "start"
            /\ baseline' = [slug |-> Head(queue).slug, header |-> Head(queue).header,
                            rows |-> Head(queue).rows]
            /\ pipeline' = Head(queue).export.cells
    /\ UNCHANGED <<doc, cfg, base_long, pipe_df, base_remaining, pipe_remaining, merged,
                   aligned_counts, both, only_baseline, only_pipeline, summary,
                   diff_files, presence_files, summary_lines, datasets, generated, summary_csv, run,
                   first_run, nullVars, colVars, valVars>>

\* lines 874-875
WriteSummary ==
    /\ AtLoop
    /\ queue = <<>>
    /\ summary_csv' = [written |-> TRUE, generated |-> generated, lines |-> summary_lines]
    /\ pc' = "run_done"
    /\ UNCHANGED <<doc, cfg, diffVars, datasets, queue, generated, run, first_run,
                   nullVars, colVars, valVars>>

\* the script is started again on the same files, later (lines 332-334)
Rerun ==
    /\ pc = "run_done"
    /\ run = 1
    /\ first_run' = [summary_csv |-> summary_csv, diff_files |-> diff_files]
    /\ run' = 2
    /\ generated' \in (generated + 1)..(generated + MaxElapsed)
    /\ summary_lines' = <<>>
    /\ queue' = datasets
    /\ pc' = "loop"
    /\ UNCHANGED <<doc, cfg, baseline, pipeline, base_long, pipe_df, base_remaining,
                   pipe_remaining, merged, aligned_counts, both, only_baseline,
                   only_pipeline, summary, diff_files, presence_files, datasets, summary_csv,
                   nullVars, colVars, valVars>>

NextRun == Next \/ CompareFiles \/ WriteSummary \/ Rerun
SpecRun == InitRun /\ [][NextRun]_vars

(* ============ specification of load_config and the rounding ============ *)
(* CONFIG = load_config() at import, then the numeric steps of             *)
(* compare_files on the cmp columns of a merged frame.                     *)
\* largest precision of a configuration document
MaxPrecision == 2

S_BEAM_M == <<"B","E","A","M","_","M">>
S_beam_m == <<"b","e","a","m","_","m">>
S_vid == <<"v","i","d">>
S_1_24 == <<"1",".","2","4">>
S_1_21 == <<"1",".","2","1">>
S_1_2 == <<"1",".","2">>
S_2_5 == <<"2",".","5">>

NumericDocs ==
    {<< <<S_beam_m, NumInt(p)>> >> : p \in 0..MaxPrecision}
        \cup {<< <<S_beam_m, NumInf>> >>, << <<S_beam_m, NumStr>> >>}
ConfigDocs ==
    {a @@ b @@ c @@ d :
        a \in Opt("join_key", {S_vid}),
        b \in Opt("numeric", NumericDocs),
        c \in Opt("ignore_transformations",
                  {("float_precision" :> p) : p \in 0..MaxPrecision}),
        d \in Opt("null_values", {<< <<"X">> >>})}
        \cup {UnparseableDoc}

\* merged frames of one cell present on both sides
NumericFrames ==
    {{[row_index |-> 0, column_name |-> c, baseline_value |-> b, cleaned_value |-> p,
       merge |-> "both"]} :
        c \in {S_BEAM_M, S_NAME}, b \in {S_1_24, S_2_5, S_A}, p \in {S_1_21, S_1_2}}

S_BUILT == <<"B","U","I","L","T">>
S_built == <<"b","u","i","l","t">>
S_01_02_2024 == <<"0","1","/","0","2","/","2","0","2","4">>
S_02_01_2024 == <<"0","2","/","0","1","/","2","0","2","4">>
S_13_02_2024 == <<"1","3","/","0","2","/","2","0","2","4">>
S_2024_01_02 == <<"2","0","2","4","-","0","1","-","0","2">>
S_2024_02_01 == <<"2","0","2","4","-","0","2","-","0","1">>
S_2024_02_13 == <<"2","0","2","4","-","0","2","-","1","3">>

\* documents that switch the date step on or off, for all columns or for BUILT
DateDocs ==
    {a @@ b @@ c :
        a \in {("ignore_transformations" :> ("date_formats" :> v)) : v \in BOOLEAN},
        b \in Opt("date_columns", {<<S_built>>}),
        c \in Opt("join_key", {S_vid})}

\* merged frames of one cell present on both sides, holding dates
DateFrames ==
    {{[row_index |-> 0, column_name |-> c, baseline_value |-> b, cleaned_value |-> p,
       merge |-> "both"]} :
        c \in {S_BUILT, S_NAME},
        b \in {S_01_02_2024, S_13_02_2024, S_2024_01_02, S_A},
        p \in {S_01_02_2024, S_02_01_2024, S_2024_01_02, S_2024_02_01, S_2024_02_13}}

InitCfg ==
    /\ pc = "cfg_start"
    /\ \/ doc \in ConfigDocs /\ merged \in NumericFrames
       \/ doc \in DateDocs /\ merged \in DateFrames
    /\ cfg = Unset
    /\ both = Unset
    /\ baseline = Unset /\ pipeline = Unset /\ base_long = Unset /\ pipe_df = Unset
    /\ base_remaining = Unset /\ pipe_remaining = Unset
    /\ aligned_counts = Unset /\ only_baseline = Unset /\ only_pipeline = Unset
    /\ summary = Unset /\ diff_files = Unset /\ presence_files = Unset
    /\ summary_lines = Unset
    /\ UnusedNull /\ UnusedCol /\ UnusedVal /\ UnusedRun

\* line 186
LoadConfig ==
    /\ pc = "cfg_start"
    /\ cfg' = load_config(doc)
    /\ pc' = "cfg_loaded"
    /\ UNCHANGED <<doc, baseline, pipeline, base_long, pipe_df, base_remaining,
                   pipe_remaining, merged, aligned_counts, both, only_baseline,
                   only_pipeline, summary, diff_files, presence_files, summary_lines,
                   nullVars, colVars, valVars, runVars>>

\* lines 549-722 on the frame
NormalizeCells ==
    /\ pc = "cfg_loaded"
    /\ both' = {Normalize(m) : m \in merged}
    /\ pc' = "cfg_cmp"
    /\ UNCHANGED <<doc, cfg, baseline, pipeline, base_long, pipe_df, base_remaining,
                   pipe_remaining, merged, aligned_counts, only_baseline,
                   only_pipeline, summary, diff_files, presence_files, summary_lines,
                   nullVars, colVars, valVars, runVars>>

NextCfg == LoadConfig \/ NormalizeCells
SpecCfg == InitCfg /\ [][NextCfg]_vars

(* ===================== specification of canonicalize_null =============== *)
NullAlphabet == {" ", "N", "A", "-"}
NullInputs ==
    SeqsUpTo(NullAlphabet, MaxValueLen)
        \cup {NULL_TOKEN, <<" ">> \o NULL_TOKEN \o <<" ">>, S_N_A, S_NONE, <<"\t">> \o S_NULL}

NullValueLists == { <<>>, << S_NA, <<" ", "-">> >>, << NULL_TOKEN, <<"A">> >> }
NullCategoryMaps ==
    { (S_NA :> <<"n","a">>),
      (<<>> :> <<"b","l","a","n","k">>) @@ (S_DASH :> NONE) }
NullDocs ==
    {a @@ b : a \in Opt("null_values", NullValueLists),
              b \in Opt("null_categories", NullCategoryMaps)}

InitNull ==
    /\ pc = "null_start"
    /\ doc \in NullDocs
    /\ cfg = load_config(doc)
    /\ value \in NullInputs
    /\ null_info = Unset
    /\ UnusedCol /\ UnusedDiff /\ UnusedVal /\ UnusedRun

CanonicalizeNull ==
    /\ pc = "null_start"
    /\ null_info' = canonicalize_null(value)
    /\ pc' = "null_done"
    /\ UNCHANGED <<doc, cfg, value, colVars, diffVars, valVars, runVars>>

NextNull == CanonicalizeNull
SpecNull == InitNull /\ [][NextNull]_vars

(* ===================== specification of canon_col_name ================== *)
ColAlphabet == {"a", "B", "_", " ", "1"}
ColInputs ==
    SeqsUpTo(ColAlphabet, MaxColLen)
        \cup {S_IMO_NUMBER, <<"I","m","o"," ","N","o",".">>, NONE}

AliasKeys == {<<"a">>, <<"B">>}
AliasTargets == {<<"b">>, <<"a","1">>, <<"c"," ","d">>}
AliasMaps == UNION {[K -> AliasTargets] : K \in SUBSET AliasKeys}
AliasDocs == Opt("aliases", AliasMaps)

InitCol ==
    /\ pc = "col_start"
    /\ doc \in AliasDocs
    /\ cfg = load_config(doc)
    /\ col \in ColInputs
    /\ canon1 = Unset /\ canon2 = Unset
    /\ UnusedNull /\ UnusedDiff /\ UnusedVal /\ UnusedRun

CanonOnce ==
    /\ pc = "col_start"
    /\ canon1' = canon_col_name(col)
    /\ pc' = "col_once"
    /\ UNCHANGED <<doc, cfg, col, canon2, nullVars, diffVars, valVars, runVars>>

CanonTwice ==
    /\ pc = "col_once"
    /\ canon2' = canon_col_name(canon1)
    /\ pc' = "col_twice"
    /\ UNCHANGED <<doc, cfg, col, canon1, nullVars, diffVars, valVars, runVars>>

NextCol == CanonOnce \/ CanonTwice
SpecCol == InitCol /\ [][NextCol]_vars

(* =================== validate_reconciliation.py ========================= *)
(* Match rates are integers in ten-thousandths (0.9905 is 9905) and        *)
(* percentages are integers in hundredths of a percentage point (5.0 is    *)
(* 500), so (baseline_rate - current_rate) * 100 percent is the plain      *)
(* difference of two rates.  A dict is the sequence of its (key, value)    *)
(* items in insertion order.                                               *)
S_CCSBT == <<"C","C","S","B","T">>
S_FFA == <<"F","F","A">>
S_IATTC == <<"I","A","T","T","C">>
S_ICCAT == <<"I","C","C","A","T">>
S_IOTC == <<"I","O","T","C">>
S_NAFO == <<"N","A","F","O">>
S_NEAFC == <<"N","E","A","F","C">>
S_NPFC == <<"N","P","F","C">>
S_PNA == <<"P","N","A">>
S_SPRFMO == <<"S","P","R","F","M","O">>
S_WCPFC == <<"W","C","P","F","C">>
S_UNKNOWN == <<"U","N","K","N","O","W","N">>
S_FLAG_STATE_CODE == <<"F","L","A","G","_","S","T","A","T","E","_","C","O","D","E">>
S_aligned_by_join_key == <<"aligned_by_join_key">>
S_aligned_by_composite == <<"aligned_by_composite">>
S_aligned_by_row_index == <<"aligned_by_row_index">>
S_baseline_file == <<"baseline_file">>
S_null_aware_match_rate == <<"null_aware_match_rate">>

DEFAULT_THRESHOLDS ==
    [ max_match_rate_drop_pct |-> 500,
      max_coverage_drop_pct |-> 1000,
      baseline_match_rates |->
          << <<S_CCSBT, 9905>>, <<S_FFA, 9998>>, <<S_IATTC, 10000>>,
             <<S_ICCAT, 9999>>, <<S_IOTC, 4425>>, <<S_NAFO, 9750>>,
             <<S_NEAFC, 9294>>, <<S_NPFC, 9998>>, <<S_PNA, 9966>>,
             <<S_SPRFMO, 9995>>, <<S_WCPFC, 9992>> >>,
      critical_columns |-> <<S_IMO, S_NAME, S_FLAG_STATE_CODE, S_FLAG>>,
      alignment_required_columns |->
          <<S_aligned_by_join_key, S_aligned_by_composite, S_aligned_by_row_index>>,
      alignment_row_index_thresholds |->
          << <<S_CCSBT, 1000>>, <<S_IOTC, 100>>, <<S_PNA, 50>> >>,
      alignment_composite_min |->
          << <<S_CCSBT, 15000>>, <<S_IOTC, 70000>> >> ]

\* thresholds = DEFAULT_THRESHOLDS.copy(); thresholds.update(custom): a
\* custom key replaces the whole default value of that key
\* (custom is the empty mapping when there is no threshold file)
load_thresholds(custom) ==
    [k \in DOMAIN DEFAULT_THRESHOLDS \cup DOMAIN custom |->
        IF k \in DOMAIN custom THEN custom[k] ELSE DEFAULT_THRESHOLDS[k]]

\* dict.get(key, default) of the thresholds
ThGet(th, key, default) == IF key \in DOMAIN th THEN th[key] ELSE default

\* key in items / items[key], for a dict given by its items
HasKey(items, k) == \E i \in 1..Len(items) : items[i][1] = k
Lookup(items, k) == items[CHOOSE i \in 1..Len(items) : items[i][1] = k][2]

\* s.split(sep)[0]
SplitFirst(s, sep) ==
    LET at == {i \in 1..Len(s) : s[i] = sep}
    IN  IF at = {} THEN s
        ELSE SubSeq(s, 1, (CHOOSE i \in at : \A j \in at : i <= j) - 1)

\* one line of the errors or of the warnings list: its text with the values
\* it is formatted from (0 and the empty string where the text has none)
Msg(text, rfmo, column, amount, limit) ==
    [text |-> text, rfmo |-> rfmo, column |-> column, amount |-> amount, limit |-> limit]

Result(errors, warnings) ==
    [passed |-> (Len(errors) = 0), errors |-> errors, warnings |-> warnings]

\* line 103
SummaryRfmo(row) ==
    IF row.baseline_file # <<>> THEN Upper(SplitFirst(row.baseline_file, "_"))
    ELSE S_UNKNOWN

\* row.get("null_aware_match_rate", 0.0)
CurrentRate(df, row) ==
    IF S_null_aware_match_rate \in df.columns THEN row.null_aware_match_rate ELSE 0

\* line 111 with >= for >
DropExceedsOrEquals(drop_pct, max_drop_pct) == drop_pct >= max_drop_pct
\* line 111
DropExceeds(drop_pct, max_drop_pct) == drop_pct > max_drop_pct

RECURSIVE SummaryLoop(_, _, _, _)
\* lines 101-121: the loop over df.iterrows()
SummaryLoop(df, rows, th, acc) ==
    IF rows = <<>> THEN acc
    ELSE LET row == Head(rows)
             baseline_rates == ThGet(th, "baseline_match_rates", <<>>)
             max_drop_pct == ThGet(th, "max_match_rate_drop_pct", 500)
             rfmo == SummaryRfmo(row)
             current_rate == CurrentRate(df, row)
             next ==
                 IF HasKey(baseline_rates, rfmo)
                 THEN LET baseline_rate == Lookup(baseline_rates, rfmo)
                          drop_pct == baseline_rate - current_rate
                      IN  IF DropExceeds(drop_pct, max_drop_pct)
                          THEN [acc EXCEPT !.errors =
                                  Append(@, Msg("null_aware_match_rate dropped", rfmo,
                                                <<>>, drop_pct, max_drop_pct))]
                          ELSE IF drop_pct > 0
                          THEN [acc EXCEPT !.warnings =
                                  Append(@, Msg("null_aware_match_rate dropped", rfmo,
                                                <<>>, drop_pct, 0))]
                          ELSE acc
                 ELSE acc
         IN  SummaryLoop(df, Tail(rows), th, next)

validate_summary(summary_path, th) ==
    IF ~summary_path.exists
    THEN [passed |-> FALSE,
          errors |-> <<Msg("Summary file not found", <<>>, <<>>, 0, 0)>>,
          warnings |-> <<>>]
    ELSE LET acc == SummaryLoop(summary_path, summary_path.rows, th,
                                [errors |-> <<>>, warnings |-> <<>>])
         IN  Result(acc.errors, acc.warnings)

\* line 157 with <= for <
CoverageDropExceedsOrEquals(delta_pct, max_coverage_drop) ==
    delta_pct <= 0 - max_coverage_drop
\* line 157
CoverageDropExceeds(delta_pct, max_coverage_drop) == delta_pct < 0 - max_coverage_drop

RECURSIVE PresenceRows(_, _, _, _)
\* lines 150-166: the loop over the rows of one presence file
PresenceRows(rfmo, rows, th, acc) ==
    IF rows = <<>> THEN acc
    ELSE LET row == Head(rows)
             max_coverage_drop == ThGet(th, "max_coverage_drop_pct", 1000)
             critical_columns == ThGet(th, "critical_columns", <<>>)
             next ==
                 IF CoverageDropExceeds(row.delta_pct, max_coverage_drop)
                 THEN IF row.column_name \in Range(critical_columns)
                      THEN [acc EXCEPT !.errors =
                              Append(@, Msg("[CRITICAL] coverage dropped", rfmo,
                                            row.column_name, 0 - row.delta_pct, 0))]
                      ELSE [acc EXCEPT !.warnings =
                              Append(@, Msg("coverage dropped", rfmo,
                                            row.column_name, 0 - row.delta_pct, 0))]
                 ELSE acc
         IN  PresenceRows(rfmo, Tail(rows), th, next)

RECURSIVE PresenceFiles(_, _, _)
\* lines 141-166: the loop over sorted(diffs_dir.glob("*_presence.csv"))
PresenceFiles(files, th, acc) ==
    IF files = <<>> THEN acc
    ELSE LET presence_file == Head(files)
             rfmo == Upper(presence_file.stem)
             next ==
                 IF presence_file.unreadable
                 THEN [acc EXCEPT !.errors =
                         Append(@, Msg("Failed to read presence file", rfmo, <<>>, 0, 0))]
                 ELSE PresenceRows(rfmo, presence_file.rows, th, acc)
         IN  PresenceFiles(Tail(files), th, next)

validate_presence(dir, th) ==
    IF ~dir.exists
    THEN [passed |-> FALSE,
          errors |-> <<Msg("Diffs directory not found", <<>>, <<>>, 0, 0)>>,
          warnings |-> <<>>]
    ELSE LET acc == PresenceFiles(dir.files, th, [errors |-> <<>>, warnings |-> <<>>])
         IN  Result(acc.errors, acc.warnings)

\* faulty variant: the whole frame, whichever dataset is asked for
SubFrameAll(rows, rfmo) == rows
\* df[df["rfmo"] == rfmo]
SubFrame(rows, rfmo) == SelectSeq(rows, LAMBDA row : SummaryRfmo(row) = rfmo)

\* line 216 with >= for >
ExceedsOrEqualsLimit(val, limit) == val >= limit
\* line 216
ExceedsLimit(val, limit) == val > limit

RECURSIVE RowIndexLimits(_, _, _)
\* lines 207-219
RowIndexLimits(items, rows, errors) ==
    IF items = <<>> THEN errors
    ELSE LET rfmo == Head(items)[1]
             limit == Head(items)[2]
             sub == SubFrame(rows, rfmo)
             next ==
                 IF sub = <<>> THEN errors
                 ELSE LET val == sub[1].aligned_by_row_index
                      IN  IF ExceedsLimit(val, limit)
                          THEN Append(errors, Msg("aligned_by_row_index exceeds threshold",
                                                  rfmo, <<>>, val, limit))
                          ELSE errors
         IN  RowIndexLimits(Tail(items), rows, next)

RECURSIVE CompositeMins(_, _, _)
\* lines 222-234
CompositeMins(items, rows, errors) ==
    IF items = <<>> THEN errors
    ELSE LET rfmo == Head(items)[1]
             minimum == Head(items)[2]
             sub == SubFrame(rows, rfmo)
             next ==
                 IF sub = <<>> THEN errors
                 ELSE LET val == sub[1].aligned_by_composite
                      IN  IF val < minimum
                          THEN Append(errors, Msg("aligned_by_composite below minimum",
                                                  rfmo, <<>>, val, minimum))
                          ELSE errors
         IN  CompositeMins(Tail(items), rows, next)

validate_alignment(summary_path, th) ==
    IF ~summary_path.exists
    THEN [passed |-> FALSE,
          errors |-> <<Msg("Summary file not found", <<>>, <<>>, 0, 0)>>,
          warnings |-> <<>>]
    ELSE IF summary_path.unreadable
    THEN [passed |-> FALSE,
          errors |-> <<Msg("Failed to read summary", <<>>, <<>>, 0, 0)>>,
          warnings |-> <<>>]
    ELSE LET df == summary_path
             required_cols == ThGet(th, "alignment_required_columns", <<>>)
             missing == SelectSeq(required_cols, LAMBDA c : c \notin df.columns)
         IN  IF missing # <<>>
             THEN [passed |-> FALSE,
                   errors |-> <<Msg("Summary missing alignment columns", <<>>,
                                    Join(<<",", " ">>, missing), 0, 0)>>,
                   warnings |-> <<>>]
             ELSE LET row_index_limits == ThGet(th, "alignment_row_index_thresholds", <<>>)
                      comp_mins == ThGet(th, "alignment_composite_min", <<>>)
                      errors == CompositeMins(comp_mins, df.rows,
                                              RowIndexLimits(row_index_limits, df.rows, <<>>))
                  IN  Result(errors, <<>>)

\* lines 293-301 with the warnings tested before the errors
ExitCodeWarningsFirst(all_errors, all_warnings) ==
    IF all_errors = <<>> /\ all_warnings = <<>> THEN 0
    ELSE IF all_warnings # <<>> THEN 2
    ELSE 1
\* lines 293-301
ExitCode(all_errors, all_warnings) ==
    IF all_errors = <<>> /\ all_warnings = <<>> THEN 0
    ELSE IF all_errors # <<>> THEN 1
    ELSE 2

(* ---------------------- specification of the validator ------------------ *)
\* most data rows of _summary.csv, most rows of a presence file
MaxSummaryRows == 1
MaxPresenceRows == 1

S_pna_file == <<"p","n","a","_","v">>
S_iotc_file == <<"i","o","t","c","_","v">>
S_pna == <<"p","n","a">>
S_X == <<"X">>

\* the custom threshold file: none (the empty mapping), or some of the keys
PerDatasetThresholds ==
    ("baseline_match_rates" :> << <<S_PNA, 9900>> >>)
        @@ ("alignment_row_index_thresholds" :> << <<S_PNA, 1>> >>)
        @@ ("alignment_composite_min" :> << <<S_PNA, 1>> >>)
ThresholdDocs ==
    {a @@ b : a \in {EmptyMap, PerDatasetThresholds},
              b \in Opt("max_match_rate_drop_pct", {300})}

SummaryColumns ==
    {S_baseline_file, S_null_aware_match_rate, S_aligned_by_join_key,
     S_aligned_by_composite, S_aligned_by_row_index}
SummaryRowsIn ==
    [baseline_file : {S_pna_file},
     null_aware_match_rate : {9000, 9399, 9400, 9600, 9900, 9966},
     aligned_by_row_index : {1, 2},
     aligned_by_composite : {0, 1}]
        \cup [baseline_file : {S_iotc_file},
              null_aware_match_rate : {3900, 4425},
              aligned_by_row_index : {1},
              aligned_by_composite : {1}]
SummaryFiles ==
    [exists : {FALSE}, unreadable : {FALSE}, columns : {{}}, rows : {<<>>}]
        \cup [exists : {TRUE}, unreadable : {TRUE}, columns : {{}}, rows : {<<>>}]
        \cup [exists : {TRUE}, unreadable : {FALSE},
              columns : {SummaryColumns, SummaryColumns \ {S_aligned_by_join_key},
                         {S_baseline_file, S_null_aware_match_rate}},
              rows : SeqsUpTo(SummaryRowsIn, MaxSummaryRows)]

PresenceRowsIn == [column_name : {S_IMO, S_X}, delta_pct : {0 - 1001, 0 - 1000, 0}]
PresenceFilesIn ==
    [stem : {S_pna}, unreadable : {TRUE}, rows : {<<>>}]
        \cup [stem : {S_pna}, unreadable : {FALSE},
              rows : SeqsUpTo(PresenceRowsIn, MaxPresenceRows)]
DiffsDirs ==
    [exists : {FALSE}, files : {<<>>}]
        \cup [exists : {TRUE}, files : {<<>>} \cup {<<f>> : f \in PresenceFilesIn}]

InitVal ==
    /\ pc = "v_start"
    /\ doc \in ThresholdDocs
    /\ thresholds = load_thresholds(doc)
    /\ summary_file \in SummaryFiles
    /\ diffs_dir \in DiffsDirs
    /\ summary_result = Unset /\ presence_result = Unset /\ align_result = Unset
    /\ exit_code = Unset
    /\ cfg = Unset
    /\ UnusedNull /\ UnusedCol /\ UnusedDiff /\ UnusedRun

\* lines 263-265; pd.read_csv of line 94 is outside any try: a summary that
\* cannot be parsed ends the invocation with the exception
ValidateSummary ==
    /\ pc = "v_start"
    /\ IF summary_file.exists /\ summary_file.unreadable
       THEN /\ pc' = "v_crashed"
            /\ UNCHANGED summary_result
       ELSE /\ summary_result' = validate_summary(summary_file, thresholds)
            /\ pc' = "v_summary"
    /\ UNCHANGED <<doc, cfg, thresholds, summary_file, diffs_dir, presence_result,
                   align_result, exit_code, nullVars, colVars, diffVars, runVars>>

\* lines 268-270
ValidatePresence ==
    /\ pc = "v_summary"
    /\ presence_result' = validate_presence(diffs_dir, thresholds)
    /\ pc' = "v_presence"
    /\ UNCHANGED <<doc, cfg, thresholds, summary_file, diffs_dir, summary_result,
                   align_result, exit_code, nullVars, colVars, diffVars, runVars>>

\* lines 273-275
ValidateAlignment ==
    /\ pc = "v_presence"
    /\ align_result' = validate_alignment(summary_file, thresholds)
    /\ pc' = "v_alignment"
    /\ UNCHANGED <<doc, cfg, thresholds, summary_file, diffs_dir, summary_result,
                   presence_result, exit_code, nullVars, colVars, diffVars, runVars>>

\* lines 278-279
AllErrors == summary_result.errors \o presence_result.errors \o align_result.errors
AllWarnings == summary_result.warnings \o presence_result.warnings \o align_result.warnings

\* lines 277-301
Report ==
    /\ pc = "v_alignment"
    /\ exit_code' = ExitCode(AllErrors, AllWarnings)
    /\ pc' = "v_done"
    /\ UNCHANGED <<doc, cfg, thresholds, summary_file, diffs_dir, summary_result,
                   presence_result, align_result, nullVars, colVars, diffVars, runVars>>

NextVal == ValidateSummary \/ ValidatePresence \/ ValidateAlignment \/ Report
SpecVal == InitVal /\ [][NextVal]_vars

(* ============================== claims ================================== *)

\* C5 (as amended): canonicalize_null is total; is_null holds exactly when the
\* trimmed input is empty or a configured null token; the canonical value is
\* '<NULL>' whenever is_null holds and is the trimmed input otherwise;
\* null_reason is None exactly when is_null is false, and otherwise it is the
\* category-map entry of the trimmed token, 'unknown' by default for a
\* non-empty token and 'empty' for the empty string.
C5_NullClassification ==
    pc = "null_done" =>
        LET t == Strip(value)
            isnull == (t = <<>>) \/ (\E i \in 1..Len(cfg.null_values) : cfg.null_values[i] = t)
        IN  /\ DOMAIN null_info = {"is_null", "canonical_value", "null_reason"}
            /\ null_info.is_null = isnull
            /\ null_info.canonical_value = (IF isnull THEN NULL_TOKEN ELSE t)
            /\ (null_info.null_reason = NONE) = ~isnull
            /\ isnull =>
                 null_info.null_reason =
                    (IF t \in DOMAIN cfg.null_categories THEN cfg.null_categories[t]
                     ELSE IF t = <<>> THEN S_empty ELSE S_unknown)

\* C5 witness: a null token with surrounding whitespace has been classified
C5_Witness ==
    /\ pc = "null_done"
    /\ null_info.is_null
    /\ Strip(value) # <<>>
    /\ Strip(value) # value

\* C5 (original): the canonical value is '<NULL>' exactly when is_null is True
C5_Original ==
    pc = "null_done" =>
        ((null_info.canonical_value = NULL_TOKEN) <=> null_info.is_null)

\* C6: canon_col_name(canon_col_name(x)) = canon_col_name(x) for every input
\* string and every alias map load_config can produce
C6_Idempotent ==
    pc = "col_twice" => canon2 = canon1

\* ---- helpers of the claims about compare_files ----
IsNullValue(v) ==
    LET t == Strip(v)
    IN  t = <<>> \/ \E i \in 1..Len(cfg.null_values) : cfg.null_values[i] = t

Stages == {"join_key", "composite", "row_index"}
BaseRowOf(m) ==
    IF m.merge = "right_only" THEN NaNRow
    ELSE IF m.aligned_by = "row_index" THEN m.row_index ELSE m.row_index_baseline
PipeRowOf(m) ==
    IF m.merge = "left_only" THEN NaNRow
    ELSE IF m.aligned_by = "row_index" THEN m.row_index ELSE m.row_index_pipeline
StagesOfBase(i) == {m.aligned_by : m \in {x \in merged : BaseRowOf(x) = i}}
StagesOfPipe(i) == {m.aligned_by : m \in {x \in merged : PipeRowOf(x) = i}}
BaseRowIds == {r.row_index : r \in base_long.rows}
PipeRowIds == {r.row_index : r \in pipe_df.rows}
AfterCascade == pc \in {"stage3", "classified", "done", "written"}

\* C1: every cell aligned on both sides gets exactly the class its null flags
\* and canonicalized values determine (never 'unknown'), and a cell present on
\* one side only gets no class.
C1_ClassificationTotal ==
    pc \in {"classified", "done", "written"} =>
        /\ \A r \in both :
             LET bn == IsNullValue(r.baseline_value)
                 pn == IsNullValue(r.pipeline_value)
             IN  r.diff_class =
                    (IF bn /\ pn THEN "match_null"
                     ELSE IF bn THEN "info_gain"
                     ELSE IF pn THEN "info_loss"
                     ELSE IF r.cmp_baseline = r.cmp_pipeline THEN "match_value"
                     ELSE "changed_value")
        /\ Cardinality(both) = Cardinality({m \in merged : m.merge = "both"})
        /\ \A r \in only_baseline \cup only_pipeline : "diff_class" \notin DOMAIN r

\* C1 witness: a changed value, a lost value and a baseline-only cell in one run
C1_Witness ==
    /\ pc = "classified"
    /\ \E r \in both : r.diff_class = "changed_value"
    /\ \E r \in both : r.diff_class = "info_loss"
    /\ only_baseline # {}

\* C2: after the cascade every baseline row and every pipeline row is in the
\* result of exactly one stage, with every one of its cells.
C2_OneStagePerRow ==
    AfterCascade =>
        /\ \A i \in BaseRowIds : Cardinality(StagesOfBase(i)) = 1
        /\ \A i \in PipeRowIds : Cardinality(StagesOfPipe(i)) = 1
        /\ \A r \in base_long.rows :
             \E m \in merged : BaseRowOf(m) = r.row_index /\ m.column_name = r.column_name
        /\ \A r \in pipe_df.rows :
             \E m \in merged : PipeRowOf(m) = r.row_index /\ m.column_name = r.column_name

\* C2 witness: the three stages each took a row
C2_Witness ==
    /\ pc = "stage3"
    /\ \A s \in Stages : \E m \in merged : m.aligned_by = s

\* the non-null join key of row r is carried by another row of the same side
DupOnOwnSide(r, rows) ==
    /\ r.join_key # NONE
    /\ ~IsNullValue(r.join_key)
    /\ \E q \in rows : q.row_index # r.row_index /\ q.join_key = r.join_key

\* C3: a row whose non-null join key is carried by another row of its own side
\* is not in the join-key stage's result and stays in the pool for the later
\* stages, one of which takes it.
C3_DuplicatesPassThrough ==
    /\ pc = "stage1" =>
         /\ \A r \in base_long.rows : DupOnOwnSide(r, base_long.rows) =>
              /\ r \in base_remaining
              /\ "join_key" \notin StagesOfBase(r.row_index)
         /\ \A r \in pipe_df.rows : DupOnOwnSide(r, pipe_df.rows) =>
              /\ r \in pipe_remaining
              /\ "join_key" \notin StagesOfPipe(r.row_index)
    /\ AfterCascade =>
         /\ \A r \in base_long.rows : DupOnOwnSide(r, base_long.rows) =>
              /\ StagesOfBase(r.row_index) # {}
              /\ StagesOfBase(r.row_index) \subseteq {"composite", "row_index"}
         /\ \A r \in pipe_df.rows : DupOnOwnSide(r, pipe_df.rows) =>
              /\ StagesOfPipe(r.row_index) # {}
              /\ StagesOfPipe(r.row_index) \subseteq {"composite", "row_index"}

\* C3 witness: the join-key stage ran over a pipeline with a duplicated key
\* and aligned nothing of those rows
C3_Witness ==
    /\ pc = "stage1"
    /\ JoinKeyStageRuns
    /\ \E r \in pipe_df.rows : DupOnOwnSide(r, pipe_df.rows)
    /\ \E r \in base_long.rows : has_key(r.join_key)

\* the composite key a row should carry, read off the cells of the row
CellsOf(rows, i, c, field) == {r[field] : r \in {x \in rows : x.row_index = i /\ x.column_name = c}}
CompleteSet(rows, i, field, set_cols) ==
    /\ set_cols # <<>>
    /\ \A j \in 1..Len(set_cols) :
          /\ CellsOf(rows, i, set_cols[j], field) # {}
          /\ \A v \in CellsOf(rows, i, set_cols[j], field) : ~IsNullValue(v)
ExpectedCompositeKey(rows, i, field) ==
    LET sets == composite_key_sets(baseline.slug)
        complete == {k \in 1..Len(sets) : CompleteSet(rows, i, field, sets[k])}
        first == CHOOSE k \in complete : \A k2 \in complete : k <= k2
    IN  IF complete = {} THEN NONE
        ELSE Join(<<"|", "|">>,
                  [j \in 1..Len(sets[first]) |->
                      Strip(CHOOSE v \in CellsOf(rows, i, sets[first][j], field) : TRUE)])

\* C4: on both sides the composite key of a row is the "||" join of the trimmed
\* values of the first configured set whose columns all exist and are non-null
\* for the row; a row with no complete set has no key, is never taken by the
\* composite stage and, unless the join-key stage took it, is in the row-index
\* stage.
C4_CompositeKeyFromFirstCompleteSet ==
    /\ pc # "start" =>
         /\ \A r \in base_long.rows :
              r.composite_key = ExpectedCompositeKey(base_long.rows, r.row_index, "baseline_value")
         /\ \A r \in pipe_df.rows :
              r.composite_key = ExpectedCompositeKey(pipe_df.rows, r.row_index, "cleaned_value")
    /\ AfterCascade =>
         /\ \A r \in base_long.rows : r.composite_key = NONE =>
              /\ "composite" \notin StagesOfBase(r.row_index)
              /\ "join_key" \notin StagesOfBase(r.row_index)
                    => StagesOfBase(r.row_index) = {"row_index"}
         /\ \A r \in pipe_df.rows : r.composite_key = NONE =>
              /\ "composite" \notin StagesOfPipe(r.row_index)
              /\ "join_key" \notin StagesOfPipe(r.row_index)
                    => StagesOfPipe(r.row_index) = {"row_index"}

\* C4 witness: with two sets configured, a baseline row got its key from the
\* second set, a pipeline row got none and went to the row-index stage
C4_Witness ==
    /\ pc = "stage3"
    /\ Len(composite_key_sets(baseline.slug)) = 2
    /\ \E r \in base_long.rows : r.composite_key = S_A
    /\ \E r \in base_long.rows : r.composite_key = S_1 \o <<"|", "|">> \o S_A
    /\ \E r \in pipe_df.rows :
           r.composite_key = NONE /\ StagesOfPipe(r.row_index) = {"row_index"}

\* C9: the null-aware match rate of the summary is (match_value + match_null if
\* enabled + info_gain if enabled) / (cells aligned on both sides) to four
\* decimals, 0 when no cell is aligned, and lies between 0 and 1.
C9_NullAwareRate ==
    pc = "done" =>
        LET n == Cardinality(both)
            positive ==
                Cardinality({r \in both : r.diff_class = "match_value"})
                 + (IF cfg.null_policy.count_match_null_as_positive
                    THEN Cardinality({r \in both : r.diff_class = "match_null"}) ELSE 0)
                 + (IF cfg.null_policy.count_info_gain_as_positive
                    THEN Cardinality({r \in both : r.diff_class = "info_gain"}) ELSE 0)
            rate == summary.null_aware_match_rate
        IN  /\ n = Cardinality({m \in merged : m.merge = "both"})
            /\ n = 0 => rate = 0
            /\ n > 0 => /\ 2 * n * rate - n <= 2 * 10000 * positive
                        /\ 2 * 10000 * positive < 2 * n * rate + n
            /\ 0 <= rate /\ rate <= 10000

\* C9 witness: match_null is not counted as positive, a null pair and a value
\* match are aligned, and a cell is unmatched
C9_Witness ==
    /\ pc = "done"
    /\ ~cfg.null_policy.count_match_null_as_positive
    /\ summary.count_match_null > 0
    /\ summary.count_match_value > 0
    /\ summary.baseline_only > 0
    /\ summary.null_aware_match_rate = 5000

\* C10 (as amended): the three alignment counts are counts of cells, and their
\* sum is the number of cells aligned on both sides.
C10_CountsSumToAlignedCells ==
    /\ AfterCascade =>
         aligned_counts.join_key + aligned_counts.composite + aligned_counts.row_index
            = Cardinality({m \in merged : m.merge = "both"})
    /\ pc = "done" =>
         /\ summary.aligned_by_join_key + summary.aligned_by_composite
               + summary.aligned_by_row_index = Cardinality(both)
         /\ \A s \in Stages :
              (CASE s = "join_key" -> summary.aligned_by_join_key
                 [] s = "composite" -> summary.aligned_by_composite
                 [] s = "row_index" -> summary.aligned_by_row_index)
                = Cardinality({r \in both : r.aligned_by = s})

\* C10 witness: cells aligned by two different stages, and an unmatched cell
C10_Witness ==
    /\ pc = "done"
    /\ summary.aligned_by_join_key > 0
    /\ summary.aligned_by_composite > 0
    /\ summary.baseline_only + summary.pipeline_only > 0

\* C10 (original): the three counts sum to the number of distinct rows the
\* cascade attempted
C10_Original ==
    pc = "done" =>
        summary.aligned_by_join_key + summary.aligned_by_composite
            + summary.aligned_by_row_index
          = Cardinality(BaseRowIds) + Cardinality(PipeRowIds)

\* C7: the exit code of the validator is determined by the accumulated
\* messages of the three checks: 1 when there is at least one error (whatever
\* the warnings), 2 when there is no error and at least one warning, 0 when
\* there is neither.
C7_ExitCode ==
    pc = "v_done" =>
        LET errs == Len(summary_result.errors) + Len(presence_result.errors)
                        + Len(align_result.errors)
            warns == Len(summary_result.warnings) + Len(presence_result.warnings)
                        + Len(align_result.warnings)
        IN  /\ exit_code \in {0, 1, 2}
            /\ exit_code = 1 <=> errs > 0
            /\ exit_code = 2 <=> (errs = 0 /\ warns > 0)
            /\ exit_code = 0 <=> (errs = 0 /\ warns = 0)

\* C7 witness: errors and warnings together, and the exit code is 1
C7_Witness ==
    /\ pc = "v_done"
    /\ exit_code = 1
    /\ Len(summary_result.warnings) + Len(presence_result.warnings) > 0
    /\ Len(align_result.errors) > 0

\* ---- helpers of the claims about the validator ----
\* the historical rate of the dataset of a summary row, as the thresholds in
\* force record it (-1: none recorded)
HistoricalRate(row) ==
    LET rfmo == Upper(SplitFirst(row.baseline_file, "_"))
        at == {i \in 1..Len(thresholds.baseline_match_rates) :
                 thresholds.baseline_match_rates[i][1] = rfmo}
    IN  IF at = {} THEN 0 - 1
        ELSE thresholds.baseline_match_rates[CHOOSE i \in at : TRUE][2]
RowsWithHistory ==
    {i \in 1..Len(summary_file.rows) : HistoricalRate(summary_file.rows[i]) >= 0}
DropOf(i) ==
    HistoricalRate(summary_file.rows[i]) - summary_file.rows[i].null_aware_match_rate
DropMessages(list, i) ==
    {k \in 1..Len(list) :
        /\ list[k].rfmo = Upper(SplitFirst(summary_file.rows[i].baseline_file, "_"))
        /\ list[k].amount = DropOf(i)}

BaselineSchema == {r.column_name : r \in base_long.rows}
PipelineSchema == {r.column_name : r \in pipe_df.rows}
\* the set names only columns both schemas have
ApplicableSet(set_cols) ==
    \A j \in 1..Len(set_cols) :
        set_cols[j] \in BaselineSchema /\ set_cols[j] \in PipelineSchema
\* the key of row i from the first set that is applicable to the pair of
\* datasets and complete for the row
PairCompositeKey(rows, i, field) ==
    LET sets == composite_key_sets(baseline.slug)
        usable == {k \in 1..Len(sets) :
                     ApplicableSet(sets[k]) /\ CompleteSet(rows, i, field, sets[k])}
        first == CHOOSE k \in usable : \A k2 \in usable : k <= k2
    IN  IF usable = {} THEN NONE
        ELSE Join(<<"|", "|">>,
                  [j \in 1..Len(sets[first]) |->
                      Strip(CHOOSE v \in CellsOf(rows, i, sets[first][j], field) : TRUE)])

\* C11: a composite-key set that names a column absent from the schema of one
\* side is used on neither side: on both sides the key of a row comes from the
\* first set whose columns exist on both sides (and are non-null for the row),
\* and when no set applies no row has a composite key and the composite stage
\* takes no row (stated for a pipeline export with at least one cell).
C11_SetMissingOnOneSideUnused ==
    (pc # "start" /\ pipe_df.rows # {}) =>
    /\ pc # "start" =>
         /\ \A r \in base_long.rows :
              r.composite_key = PairCompositeKey(base_long.rows, r.row_index, "baseline_value")
         /\ \A r \in pipe_df.rows :
              r.composite_key = PairCompositeKey(pipe_df.rows, r.row_index, "cleaned_value")
    /\ AfterCascade =>
         ((\A k \in 1..Len(composite_key_sets(baseline.slug)) :
              ~ApplicableSet(composite_key_sets(baseline.slug)[k]))
            => \A m \in merged : m.aligned_by # "composite")

\* C12: the mismatch CSV of a dataset holds exactly the aligned cells classified
\* changed_value together with the unmatched (baseline-only and pipeline-only)
\* cells, and no cell of another class.
C12_DiffCsvCells ==
    (pc = "written" /\ baseline.slug \in DOMAIN diff_files) =>
        LET cells == diff_files[baseline.slug]
        IN  /\ \A r \in both : r.diff_class = "changed_value" => r \in cells
            /\ \A m \in only_baseline \cup only_pipeline :
                 \E c \in cells :
                    /\ c.merge = m.merge
                    /\ c.aligned_by = m.aligned_by
                    /\ c.column_name = m.column_name
                    /\ BaseRowOf(c) = BaseRowOf(m)
                    /\ PipeRowOf(c) = PipeRowOf(m)
            /\ \A c \in cells :
                 c.merge = "both" => c.diff_class = "changed_value"

\* ---- helpers of the claims about a run of the script ----
RunEnded == pc \in {"run_done", "crashed"}
WithExport == SelectSeq(datasets, LAMBDA d : d.export.found)

\* C13: a baseline without a pipeline export is skipped without a summary row
\* and the loop goes on; when the run ends, _summary.csv has been written and
\* holds exactly one row for each baseline that had an export, in order,
\* whatever the input data hold.
C13_SummaryAlwaysWritten ==
    /\ (AtLoop /\ run = 1) =>
         Len(summary_lines)
            = Len(SelectSeq(SubSeq(datasets, 1, Len(datasets) - Len(queue)),
                            LAMBDA d : d.export.found))
    /\ (RunEnded /\ run = 1) =>
         /\ summary_csv.written
         /\ Len(summary_csv.lines) = Len(WithExport)
         /\ \A k \in 1..Len(WithExport) :
              summary_csv.lines[k].baseline_file = WithExport[k].slug

\* C14: a second run over unchanged inputs and configuration leaves the same
\* files as the first: the same diff CSVs and the same _summary.csv.
C14_RerunReproducible ==
    (pc = "run_done" /\ run = 2) =>
        /\ diff_files = first_run.diff_files
        /\ summary_csv = first_run.summary_csv

\* ---- helpers of the claims about validate_presence ----
PresenceDone == pc \in {"v_presence", "v_alignment", "v_done"}
\* the rows of the presence files that were read, each with its dataset
PresenceCells ==
    [k \in 1..Len(diffs_dir.files[1].rows) |->
        [rfmo |-> Upper(diffs_dir.files[1].stem), row |-> diffs_dir.files[1].rows[k]]]
CoverageLimit == ThGet(thresholds, "max_coverage_drop_pct", 1000)
IsCritical(column_name) ==
    column_name \in Range(ThGet(thresholds, "critical_columns", <<>>))
FlaggedCells == SelectSeq(PresenceCells, LAMBDA c : c.row.delta_pct < 0 - CoverageLimit)
CoverageMsg(text, c) == Msg(text, c.rfmo, c.row.column_name, 0 - c.row.delta_pct, 0)

\* C15: validate_presence flags a column exactly when its delta_pct is below
\* minus max_coverage_drop_pct: an error prefixed [CRITICAL] when the column is
\* in critical_columns, a warning otherwise; a drop at or under the threshold
\* gives no message.
C15_CoverageDrop ==
    (PresenceDone /\ diffs_dir.exists /\ diffs_dir.files # <<>>
        /\ ~diffs_dir.files[1].unreadable) =>
        LET crit == SelectSeq(FlaggedCells, LAMBDA c : IsCritical(c.row.column_name))
            rest == SelectSeq(FlaggedCells, LAMBDA c : ~IsCritical(c.row.column_name))
        IN  /\ presence_result.errors =
                  [k \in 1..Len(crit) |-> CoverageMsg("[CRITICAL] coverage dropped", crit[k])]
            /\ presence_result.warnings =
                  [k \in 1..Len(rest) |-> CoverageMsg("coverage dropped", rest[k])]
            /\ presence_result.passed = (crit = <<>>)

\* a critical column whose coverage fell by more than the threshold was reported
C15_Witness ==
    /\ PresenceDone /\ diffs_dir.exists /\ diffs_dir.files # <<>>
    /\ ~diffs_dir.files[1].unreadable
    /\ \E k \in 1..Len(diffs_dir.files[1].rows) :
          /\ diffs_dir.files[1].rows[k].column_name = S_IMO
          /\ diffs_dir.files[1].rows[k].delta_pct = 0 - 1001
    /\ presence_result.errors # <<>>

\* ---- helpers of the claims about validate_alignment ----
AlignmentDone == pc \in {"v_alignment", "v_done"}
RequiredColumnsPresent ==
    Range(ThGet(thresholds, "alignment_required_columns", <<>>)) \subseteq summary_file.columns
\* the configured limits that have a row in the summary, and that row's count
Ceilings ==
    SelectSeq(ThGet(thresholds, "alignment_row_index_thresholds", <<>>),
              LAMBDA it : SubFrame(summary_file.rows, it[1]) # <<>>)
Floors ==
    SelectSeq(ThGet(thresholds, "alignment_composite_min", <<>>),
              LAMBDA it : SubFrame(summary_file.rows, it[1]) # <<>>)
DatasetRow(rfmo) == SubFrame(summary_file.rows, rfmo)[1]
HasAlignError(text, rfmo) ==
    \E k \in 1..Len(align_result.errors) :
        align_result.errors[k].text = text /\ align_result.errors[k].rfmo = rfmo
AlignmentLimitsApplied ==
    /\ \A k \in 1..Len(Ceilings) :
          HasAlignError("aligned_by_row_index exceeds threshold", Ceilings[k][1])
              <=> DatasetRow(Ceilings[k][1]).aligned_by_row_index > Ceilings[k][2]
    /\ \A k \in 1..Len(Floors) :
          HasAlignError("aligned_by_composite below minimum", Floors[k][1])
              <=> DatasetRow(Floors[k][1]).aligned_by_composite < Floors[k][2]

C17_AllChecksReport ==
    /\ pc # "v_crashed"
    /\ pc = "v_done" =>
         /\ summary_result = validate_summary(summary_file, thresholds)
         /\ presence_result = validate_presence(diffs_dir, thresholds)
         /\ align_result = validate_alignment(summary_file, thresholds)
         /\ exit_code = ExitCode(AllErrors, AllWarnings)

\* ---- helpers of the claims about the configuration ----
DocFails(d) == Has(d, "<unparseable>") \/ NumericRaises(d)

\* C18: if reading or interpreting the configuration document fails at any
\* point, load_config returns the built-in default configuration: no setting
\* of the failing document is left applied.
C18_FailureGivesDefaults ==
    (pc \in {"cfg_loaded", "cfg_cmp"} /\ DocFails(doc)) => cfg = DefaultConfig

\* ---- helpers of the claim about numeric rounding ----
OwnPrecisions(column_name) ==
    {cfg.numeric[i][2] : i \in {j \in 1..Len(cfg.numeric) : cfg.numeric[j][1] = column_name}}
ExpectedRounding(column_name, x) ==
    IF OwnPrecisions(column_name) # {}
    THEN TryRound(x, CHOOSE p \in OwnPrecisions(column_name) : TRUE)
    ELSE IF ~cfg.float_precision.is_none THEN TryRound(x, cfg.float_precision.val)
    ELSE x

\* C20: a cell is rounded to the precision of its column when the column has
\* one, to the global precision only when the column has none, and is left
\* unrounded when neither is configured; the global precision is never applied
\* to a column that has its own.
C20_PrecisionChoice ==
    pc = "cfg_cmp" =>
        \A r \in both :
            /\ r.cmp_baseline = ExpectedRounding(r.column_name, r.baseline_value)
            /\ r.cmp_pipeline = ExpectedRounding(r.column_name, r.pipeline_value)

\* ---- helpers of the worked example of the join key ----
UniqueKey(r, rows) == ~\E q \in rows : q.row_index # r.row_index /\ q.join_key = r.join_key
ExampleRun == baseline = ExampleBaseline /\ pipeline = ExamplePipeline

DateStepApplies(r) ==
    /\ cfg.date_formats
    /\ cfg.date_columns = <<>> \/ r.column_name \in Range(cfg.date_columns)
SameDate(b, p, dayfirst) ==
    /\ ParseDate(b, dayfirst).ok /\ ParseDate(p, dayfirst).ok
    /\ ParseDate(b, dayfirst) = ParseDate(p, dayfirst)

C22_EmptyStringIsEmpty ==
    (pc = "null_done" /\ value = <<>>) =>
        /\ null_info.is_null
        /\ null_info.canonical_value = NULL_TOKEN
        /\ null_info.null_reason = S_empty

\* ---- helpers of the claims about the two key stages ----
\* the rows of a side that carry a key, and the keys carried by several of them
Keyed(rows, on) == {r \in rows : has_key(r[on])}
CarriedTwice(k, rows, on) ==
    Cardinality({q.row_index : q \in {x \in Keyed(rows, on) : x[on] = k}}) > 1
\* the pools of the composite stage: what the join-key stage did not take
BasePoolAfterJoin == {r \in base_long.rows : "join_key" \notin StagesOfBase(r.row_index)}
PipePoolAfterJoin == {r \in pipe_df.rows : "join_key" \notin StagesOfPipe(r.row_index)}
\* r enters the stage: it has a key that no side carries twice
EntersStage(r, own, other, on) ==
    /\ has_key(r[on])
    /\ ~CarriedTwice(r[on], own, on)
    /\ ~CarriedTwice(r[on], other, on)
HasCounterpart(r, other, on) ==
    \E q \in Keyed(other, on) : q[on] = r[on] /\ q.column_name = r.column_name
\* the cell of r in the result of the stage, on the baseline or the pipeline side
StageCells(r, stage, side) ==
    {m \in merged :
        /\ m.aligned_by = stage
        /\ m.column_name = r.column_name
        /\ IF side = "baseline" THEN BaseRowOf(m) = r.row_index
           ELSE PipeRowOf(m) = r.row_index}
ConsumedBy(r, own, other, on, stage, side, remaining) ==
    EntersStage(r, own, other, on) =>
        /\ r \notin remaining
        /\ StageCells(r, stage, side) # {}
        /\ ~HasCounterpart(r, other, on) =>
              \A m \in StageCells(r, stage, side) :
                  m.merge = IF side = "baseline" THEN "left_only" ELSE "right_only"
        /\ AfterCascade =>
              (IF side = "baseline" THEN StagesOfBase(r.row_index)
               ELSE StagesOfPipe(r.row_index)) = {stage}

\* C23: a row that enters the join-key stage or the composite stage is
\* consumed by it whether or not the other side has a row with its key: without
\* counterpart its cells are reported baseline-only / pipeline-only by that
\* stage, and no later stage tries the row again.
C23_ConsumedWithoutCounterpart ==
    /\ (pc \in {"stage1", "stage2", "stage3"} /\ JoinKeyStageRuns) =>
         /\ \A r \in base_long.rows :
              ConsumedBy(r, base_long.rows, pipe_df.rows, "join_key", "join_key",
                         "baseline", base_remaining)
         /\ \A r \in pipe_df.rows :
              ConsumedBy(r, pipe_df.rows, base_long.rows, "join_key", "join_key",
                         "pipeline", pipe_remaining)
    /\ (pc \in {"stage2", "stage3"} /\ CompositeStageRuns) =>
         /\ \A r \in BasePoolAfterJoin :
              ConsumedBy(r, BasePoolAfterJoin, PipePoolAfterJoin, "composite_key",
                         "composite", "baseline", base_remaining)
         /\ \A r \in PipePoolAfterJoin :
              ConsumedBy(r, PipePoolAfterJoin, BasePoolAfterJoin, "composite_key",
                         "composite", "pipeline", pipe_remaining)

\* a baseline row and a pipeline row went through the join-key stage without
\* counterpart and were not tried by position
C23_Witness ==
    /\ pc = "stage3"
    /\ \E m \in merged : m.aligned_by = "join_key" /\ m.merge = "left_only"
    /\ \E m \in merged : m.aligned_by = "join_key" /\ m.merge = "right_only"
    /\ ~\E m \in merged : m.aligned_by = "row_index" /\ m.row_index = 0

\* r has a key that its own side carries once and the other side several times
DupOnOtherSideOnly(r, own, other, on) ==
    /\ has_key(r[on])
    /\ ~CarriedTwice(r[on], own, on)
    /\ CarriedTwice(r[on], other, on)

\* C24: in the join-key stage and in the composite stage a key carried by
\* several rows of either side is excluded on both sides: a row whose key is
\* unique on its own side but carried by two or more rows of the other side is
\* not consumed by the stage and passes to the next one.
C24_DuplicateOnOtherSide ==
    /\ (pc = "stage1" /\ JoinKeyStageRuns) =>
         /\ \A r \in base_long.rows :
              DupOnOtherSideOnly(r, base_long.rows, pipe_df.rows, "join_key") =>
                  r \in base_remaining /\ "join_key" \notin StagesOfBase(r.row_index)
         /\ \A r \in pipe_df.rows :
              DupOnOtherSideOnly(r, pipe_df.rows, base_long.rows, "join_key") =>
                  r \in pipe_remaining /\ "join_key" \notin StagesOfPipe(r.row_index)
    /\ (pc = "stage2" /\ CompositeStageRuns) =>
         /\ \A r \in BasePoolAfterJoin :
              DupOnOtherSideOnly(r, BasePoolAfterJoin, PipePoolAfterJoin, "composite_key") =>
                  r \in base_remaining /\ "composite" \notin StagesOfBase(r.row_index)
         /\ \A r \in PipePoolAfterJoin :
              DupOnOtherSideOnly(r, PipePoolAfterJoin, BasePoolAfterJoin, "composite_key") =>
                  r \in pipe_remaining /\ "composite" \notin StagesOfPipe(r.row_index)
    /\ AfterCascade =>
         /\ \A r \in base_long.rows :
              (JoinKeyStageRuns
                  /\ DupOnOtherSideOnly(r, base_long.rows, pipe_df.rows, "join_key")) =>
                  StagesOfBase(r.row_index) \subseteq {"composite", "row_index"}
         /\ \A r \in pipe_df.rows :
              (JoinKeyStageRuns
                  /\ DupOnOtherSideOnly(r, pipe_df.rows, base_long.rows, "join_key")) =>
                  StagesOfPipe(r.row_index) \subseteq {"composite", "row_index"}

\* a baseline row with a key of its own met two exported rows with that key and
\* was left to the later stages, and so was an exported row in the mirror case
C24_Witness ==
    /\ pc = "stage1" /\ JoinKeyStageRuns
    /\ \E r \in base_long.rows :
          /\ DupOnOtherSideOnly(r, base_long.rows, pipe_df.rows, "join_key")
          /\ r \in base_remaining

\* ---- helpers of the claim about one-to-one alignment ----
KeyStages == {"join_key", "composite"}
\* the couples of rows that a key stage paired
PairedRows(stage) ==
    {<<m.row_index_baseline, m.row_index_pipeline>> :
        m \in {x \in merged : x.aligned_by = stage /\ x.merge = "both"}}
KeyField(stage) == IF stage = "join_key" THEN "join_key" ELSE "composite_key"
KeysOfRow(rows, i, on) == {r[on] : r \in {x \in rows : x.row_index = i}}

\* C25: the alignment of the join-key stage and of the composite stage is
\* one-to-one: no baseline row is paired with several pipeline rows, no
\* pipeline row with several baseline rows, and the two rows of a couple carry
\* the same non-null key.
C25_OneToOne ==
    AfterCascade =>
        \A stage \in KeyStages :
            /\ \A c1 \in PairedRows(stage) : \A c2 \in PairedRows(stage) :
                  (c1[1] = c2[1] \/ c1[2] = c2[2]) => c1 = c2
            /\ \A c \in PairedRows(stage) :
                  /\ KeysOfRow(base_long.rows, c[1], KeyField(stage))
                        = KeysOfRow(pipe_df.rows, c[2], KeyField(stage))
                  /\ \A k \in KeysOfRow(base_long.rows, c[1], KeyField(stage)) :
                        k # NONE /\ ~IsNullValue(k)
                  /\ Cardinality(KeysOfRow(base_long.rows, c[1], KeyField(stage))) = 1

\* both key stages paired a couple of rows
C25_Witness ==
    /\ pc = "stage3"
    /\ \A stage \in KeyStages : PairedRows(stage) # {}

\* ---- the summary row ----
Summarized == pc \in {"done", "written"}
ClassCounts(row) ==
    row.count_match_value + row.count_match_null + row.count_info_gain
        + row.count_info_loss + row.count_changed_value
AlignedCounts(row) ==
    row.aligned_by_join_key + row.aligned_by_composite + row.aligned_by_row_index

\* C26: every summary row written by compare_files is internally consistent:
\* total_cells = matched + mismatched + baseline_only + pipeline_only, and
\* matched + mismatched = the sum of the five class counts = the sum of the
\* three alignment counts.
C26_SummaryRowConsistent ==
    Summarized =>
        \A i \in 1..Len(summary_lines) :
            LET row == summary_lines[i]
            IN  /\ row.total_cells
                      = row.matched + row.mismatched + row.baseline_only + row.pipeline_only
                /\ row.matched + row.mismatched = ClassCounts(row)
                /\ ClassCounts(row) = AlignedCounts(row)

\* C26 witness: a written row with matched, mismatched, null-matched and
\* one-sided cells, aligned by two stages
C26_Witness ==
    /\ pc = "done"
    /\ Len(summary_lines) = 1
    /\ summary_lines[1].matched > 0 /\ summary_lines[1].mismatched > 0
    /\ summary_lines[1].count_match_null > 0
    /\ summary_lines[1].baseline_only + summary_lines[1].pipeline_only > 0
    /\ summary_lines[1].aligned_by_join_key > 0
    /\ summary_lines[1].aligned_by_row_index > 0
\* C27: the legacy metrics agree with the null-aware classification:
\* matched = count_match_value + count_match_null and mismatched =
\* count_info_gain + count_info_loss + count_changed_value, also when a value
\* is the literal text of the canonical null token.
C27_LegacyAgreesWithClasses ==
    Summarized =>
        \A i \in 1..Len(summary_lines) :
            LET row == summary_lines[i]
            IN  /\ row.matched = row.count_match_value + row.count_match_null
                /\ row.mismatched = row.count_info_gain + row.count_info_loss
                                        + row.count_changed_value
\* ---- the presence report ----
PresenceWritten == Summarized /\ baseline.slug \in DOMAIN presence_files
\* the cells of a column aligned on both sides
AlignedCells(column_name) == {r \in both : r.column_name = column_name}
DefaultCoverageDrop == DEFAULT_THRESHOLDS["max_coverage_drop_pct"]

\* C28: for every column of the presence report both percentages are over
\* the number n of the column's cells aligned on both sides, so that
\* delta_pct * n / 100 = info_gain - info_loss; a column without aligned cell
\* reports 0 for both percentages and for delta_pct and does not trigger the
\* coverage check of the validator.
C28_PresenceDelta ==
    PresenceWritten =>
        \A rec \in presence_files[baseline.slug] :
            LET n == Cardinality(AlignedCells(rec.column_name))
            IN  /\ n > 0 => /\ rec.baseline_non_null_pct.den = n
                            /\ rec.pipeline_non_null_pct.den = n
                /\ rec.delta_pct.num * n
                      = 100 * (rec.info_gain - rec.info_loss) * rec.delta_pct.den
                /\ n = 0 => /\ rec.baseline_non_null_pct.num = 0
                            /\ rec.pipeline_non_null_pct.num = 0
                            /\ rec.delta_pct.num = 0
                            /\ ~CoverageDropExceeds(0, DefaultCoverageDrop)
\* ---- datasets without a summary row ----
ItemKeys(items) == {items[i][1] : i \in 1..Len(items)}
WithRate == ItemKeys(ThGet(thresholds, "baseline_match_rates", <<>>))
WithCeiling == ItemKeys(ThGet(thresholds, "alignment_row_index_thresholds", <<>>))
WithFloor == ItemKeys(ThGet(thresholds, "alignment_composite_min", <<>>))
InSummary(rfmo) ==
    \E i \in 1..Len(summary_file.rows) : SummaryRfmo(summary_file.rows[i]) = rfmo
Names(list, rfmo) == \E k \in 1..Len(list) : list[k].rfmo = rfmo

\* C29: the match-rate and the alignment checks look only at the datasets
\* that have a row in the summary: a dataset with a recorded historical rate,
\* a row-index ceiling or a composite floor and without a row yields neither
\* an error nor a warning.
C29_AbsentDatasetSilent ==
    AlignmentDone =>
        \A rfmo \in WithRate \cup WithCeiling \cup WithFloor :
            ~InSummary(rfmo) =>
                /\ ~Names(summary_result.errors, rfmo)
                /\ ~Names(summary_result.warnings, rfmo)
                /\ ~Names(align_result.errors, rfmo)
                /\ ~Names(align_result.warnings, rfmo)

\* C29 witness: the summary was read and holds a row of PNA only, reported by
\* the match-rate check, while IOTC has a rate, a ceiling and a floor and no row
C29_Witness ==
    /\ AlignmentDone /\ summary_file.exists /\ RequiredColumnsPresent
    /\ S_IOTC \in WithRate \cap WithCeiling \cap WithFloor
    /\ ~InSummary(S_IOTC) /\ InSummary(S_PNA)
    /\ Names(summary_result.errors, S_PNA)
    /\ align_result.passed
\* ---- join keys and surrounding whitespace ----
\* the rows of a side whose join key is k once trimmed
RowsOfTrimmedKey(rows, k) ==
    {q.row_index : q \in {x \in Keyed(rows, "join_key") : Strip(x.join_key) = Strip(k)}}

\* C30: join-key values are compared after trimming surrounding whitespace on
\* both sides: a baseline row and a pipeline row whose join-key cells are
\* non-null, unique and equal after trimming are aligned by the join-key stage.
C30_JoinKeyTrimmed ==
    AfterCascade =>
        \A b \in base_long.rows : \A p \in pipe_df.rows :
            ( /\ has_key(b.join_key) /\ has_key(p.join_key)
              /\ Strip(b.join_key) = Strip(p.join_key)
              /\ Cardinality(RowsOfTrimmedKey(base_long.rows, b.join_key)) = 1
              /\ Cardinality(RowsOfTrimmedKey(pipe_df.rows, p.join_key)) = 1 )
            => <<b.row_index, p.row_index>> \in PairedRows("join_key")
=============================================================================
